---------------------------- MODULE Spec2Model ----------------------------
(***************************************************************************)
(* A model of the C style checker of src/Script_Analyzer.py.               *)
(*                                                                         *)
(* Text is modelled character by character: a Python str is a sequence of  *)
(* one-character strings, so that len(), strip(), startswith(), the `in`   *)
(* operator and the regular expressions of the rule checkers are computed  *)
(* the way the interpreter computes them.                                  *)
(***************************************************************************)
EXTENDS Integers, Sequences, FiniteSets, TLC

(***************************************************************************)
(* Python str as a sequence of characters                                  *)
(***************************************************************************)

\* A string literal as a sequence of one-character strings.
S(str) == [i \in 1..Len(str) |-> SubSeq(str, i, i)]

Range(f) == {f[i] : i \in DOMAIN f}

LowerLetters == S("abcdefghijklmnopqrstuvwxyz")

UpperLetters == S("ABCDEFGHIJKLMNOPQRSTUVWXYZ")

Lower == Range(LowerLetters)

Upper == Range(UpperLetters)

Digits == Range(S("0123456789"))

\* \w of the re module (ASCII part)
WordChars == Lower \cup Upper \cup Digits \cup {"_"}

\* \s of the re module and the characters str.strip() removes (ASCII part)
SpaceChars == {" ", "\t", "\n", "\r", "\f"}

\* the lower-case letter of every upper-case letter, and the reverse
LowerOf == [c \in Upper |-> LowerLetters[CHOOSE k \in 1..26 : UpperLetters[k] = c]]

UpperOf == [c \in Lower |-> UpperLetters[CHOOSE k \in 1..26 : LowerLetters[k] = c]]

\* str.lower() and str.upper() on one character
ToLower(c) == IF c \in Upper THEN LowerOf[c] ELSE c

ToUpper(c) == IF c \in Lower THEN UpperOf[c] ELSE c

\* str.isupper() on one character
IsUpperChar(c) == c \in Upper

\* the smallest element of a non-empty set of numbers
MinOf(set) == CHOOSE x \in set : \A y \in set : x <= y

Min2(a, b) == IF a < b THEN a ELSE b

Max2(a, b) == IF a > b THEN a ELSE b

\* s[i:] with a 1-based i
From(s, i) == SubSeq(s, i, Len(s))

\* s.startswith(p)
StartsWith(s, p) == Len(p) <= Len(s) /\ SubSeq(s, 1, Len(p)) = p

\* s.endswith(p)
EndsWith(s, p) == Len(p) <= Len(s) /\ SubSeq(s, Len(s) - Len(p) + 1, Len(s)) = p

\* p occurs in s at the 1-based position i
OccursAt(s, p, i) == i >= 1 /\ i + Len(p) - 1 <= Len(s) /\ SubSeq(s, i, i + Len(p) - 1) = p

\* p in s
Contains(s, p) == \E i \in 1..(Len(s) - Len(p) + 1) : OccursAt(s, p, i)

\* s.index(p) as a 1-based position (s.find(p) + 1), 0 when p is not in s
IndexOf(s, p) ==
    IF Contains(s, p)
    THEN CHOOSE i \in 1..(Len(s) - Len(p) + 1) :
             OccursAt(s, p, i) /\ \A j \in 1..(i - 1) : ~OccursAt(s, p, j)
    ELSE 0

\* s.rfind(p) + 1
RIndexOf(s, p) ==
    IF Contains(s, p)
    THEN CHOOSE i \in 1..(Len(s) - Len(p) + 1) :
             OccursAt(s, p, i) /\ \A j \in (i + 1)..Len(s) : ~OccursAt(s, p, j)
    ELSE 0

\* s.lstrip(chars)
LStripChars(s, chars) ==
    IF \A i \in 1..Len(s) : s[i] \in chars
    THEN <<>>
    ELSE From(s, CHOOSE i \in 1..Len(s) :
                     s[i] \notin chars /\ \A j \in 1..(i - 1) : s[j] \in chars)

\* s.rstrip(chars)
RStripChars(s, chars) ==
    IF \A i \in 1..Len(s) : s[i] \in chars
    THEN <<>>
    ELSE SubSeq(s, 1, CHOOSE i \in 1..Len(s) :
                          s[i] \notin chars /\ \A j \in (i + 1)..Len(s) : s[j] \in chars)

\* s.rstrip()
RStrip(s) == RStripChars(s, SpaceChars)

\* s.strip()
Strip(s) == LStripChars(RStripChars(s, SpaceChars), SpaceChars)

\* s.count(c) for a one-character c
CountChar(s, c) == Cardinality({i \in 1..Len(s) : s[i] = c})

\* s.replace(c, "") for a one-character c
RemoveChar(s, c) == SelectSeq(s, LAMBDA x : x # c)

\* s.split(c) for a one-character separator c: every field, empty ones included
RECURSIVE SplitOn(_, _)
SplitOn(s, c) ==
    IF \A i \in 1..Len(s) : s[i] # c
    THEN <<s>>
    ELSE LET k == CHOOSE i \in 1..Len(s) : s[i] = c /\ \A j \in 1..(i - 1) : s[j] # c
         IN  <<SubSeq(s, 1, k - 1)>> \o SplitOn(From(s, k + 1), c)

\* s.split(): the maximal runs of non-whitespace characters
RECURSIVE SplitWS(_)
SplitWS(s) ==
    LET t == LStripChars(s, SpaceChars)
    IN  IF t = <<>> THEN <<>>
        ELSE IF \A i \in 1..Len(t) : t[i] \notin SpaceChars
        THEN <<t>>
        ELSE LET k == CHOOSE i \in 1..Len(t) :
                          t[i] \in SpaceChars /\ \A j \in 1..(i - 1) : t[j] \notin SpaceChars
             IN  <<SubSeq(t, 1, k - 1)>> \o SplitWS(From(t, k))

\* seq[-1]
Last(seq) == seq[Len(seq)]


(***************************************************************************)
(* The re module: a backtracking matcher                                   *)
(*                                                                         *)
(* A pattern is a tree of records.  ReM gives every way the pattern can    *)
(* match at a position, in the order the backtracking matcher tries them,  *)
(* so its first element is the match re.match/re.search returns (greedy    *)
(* and lazy quantifiers, alternation order and group captures included).   *)
(***************************************************************************)

\* one character of the set cs
Ch(cs) == [t |-> "ch", in |-> cs, neg |-> FALSE]

\* one character not in the set cs
NCh(cs) == [t |-> "ch", in |-> cs, neg |-> TRUE]

\* `.`
Dot == [t |-> "dot"]

\* a literal string
Lit(str) == [t |-> "lit", s |-> S(str)]

\* a literal given as a character sequence
LitSeq(cs) == [t |-> "lit", s |-> cs]

\* concatenation
Cat(xs) == [t |-> "seq", xs |-> xs]

\* a|b|c
Alt(xs) == [t |-> "alt", xs |-> xs]

\* x{lo,hi}, greedy; hi = -1 is "no upper limit"
Rep(x, lo, hi) == [t |-> "rep", x |-> x, lo |-> lo, hi |-> hi, lazy |-> FALSE]

\* x*, x+, x?
Star(x) == Rep(x, 0, -1)

Plus(x) == Rep(x, 1, -1)

Opt(x) == Rep(x, 0, 1)

\* x*?
LazyStar(x) == [t |-> "rep", x |-> x, lo |-> 0, hi |-> -1, lazy |-> TRUE]

\* the capturing group number k
Grp(k, x) == [t |-> "grp", k |-> k, x |-> x]

\* ^ (without re.MULTILINE), $, \b, (?<!\S), (?!\S)
Bol == [t |-> "bol"]

Eol == [t |-> "eol"]

WordB == [t |-> "wb"]

NotAfterNonSpace == [t |-> "nlbS"]

NotBeforeNonSpace == [t |-> "nlaS"]

\* \s, \S, \w, \d
ReSpace == Ch(SpaceChars)

ReNonSpace == NCh(SpaceChars)

ReWord == Ch(WordChars)

ReDigit == Ch(Digits)

\* the flags of a compiled pattern
NoFlags == [ic |-> FALSE, dotall |-> FALSE]

IgnoreCase == [ic |-> TRUE, dotall |-> FALSE]

DotAllIgnoreCase == [ic |-> TRUE, dotall |-> TRUE]

\* no group has matched yet: findall reports '' for such a group
NoCaps(n) == [k \in 1..n |-> <<>>]

\* whether the character c is in the class of the node n; with re.IGNORECASE a
\* character is in the class when one of its two cases is
ReCharOk(c, n, fl) ==
    IF fl.ic
    THEN (c \in n.in \/ ToLower(c) \in n.in \/ ToUpper(c) \in n.in) # n.neg
    ELSE (c \in n.in) # n.neg

ReLitOk(s, i, lit, fl) ==
    /\ i + Len(lit) - 1 <= Len(s)
    /\ \A k \in 1..Len(lit) :
          IF fl.ic THEN ToLower(s[i + k - 1]) = ToLower(lit[k]) ELSE s[i + k - 1] = lit[k]

IsWordAt(s, i) == i >= 1 /\ i <= Len(s) /\ s[i] \in WordChars

ReAssertOk(n, s, i) ==
    CASE n.t = "bol" -> i = 1
      [] n.t = "eol" -> i = Len(s) + 1 \/ (i = Len(s) /\ s[i] = "\n")
      [] n.t = "wb" -> IsWordAt(s, i - 1) # IsWordAt(s, i)
      [] n.t = "nlbS" -> i = 1 \/ s[i - 1] \in SpaceChars
      [] n.t = "nlaS" -> i > Len(s) \/ s[i] \in SpaceChars

\* the matches rs of the body of group k from position i on, each with the text
\* it has matched as the group's capture
ReCapture(rs, k, s, i) ==
    [j \in 1..Len(rs) |->
        [pos |-> rs[j].pos,
         caps |-> IF k \in DOMAIN rs[j].caps
                  THEN [rs[j].caps EXCEPT ![k] = SubSeq(s, i, rs[j].pos - 1)]
                  ELSE rs[j].caps]]

RECURSIVE ReM(_, _, _, _, _)
RECURSIVE ReSeq(_, _, _, _, _, _)
RECURSIVE ReAlt(_, _, _, _, _, _)
RECURSIVE ReRep(_, _, _, _, _, _)
RECURSIVE ReThen(_, _, _, _, _, _, _)
RECURSIVE ReRepThen(_, _, _, _, _, _, _)

\* every match of the node n of a pattern in s at position i, given the groups
\* captured so far, as records [pos, caps] in backtracking order
ReM(n, s, i, caps, fl) ==
    CASE n.t = "ch" ->
             IF i <= Len(s) /\ ReCharOk(s[i], n, fl)
             THEN <<[pos |-> i + 1, caps |-> caps]>> ELSE <<>>
      [] n.t = "dot" ->
             IF i <= Len(s) /\ (fl.dotall \/ s[i] # "\n")
             THEN <<[pos |-> i + 1, caps |-> caps]>> ELSE <<>>
      [] n.t = "lit" ->
             IF ReLitOk(s, i, n.s, fl)
             THEN <<[pos |-> i + Len(n.s), caps |-> caps]>> ELSE <<>>
      [] n.t = "seq" -> ReSeq(n.xs, 1, s, i, caps, fl)
      [] n.t = "alt" -> ReAlt(n.xs, 1, s, i, caps, fl)
      [] n.t = "rep" -> ReRep(n, 0, s, i, caps, fl)
      [] n.t = "grp" -> ReCapture(ReM(n.x, s, i, caps, fl), n.k, s, i)
      [] OTHER ->
             IF ReAssertOk(n, s, i) THEN <<[pos |-> i, caps |-> caps]>> ELSE <<>>

\* xs[k], xs[k+1], ... one after the other
ReSeq(xs, k, s, i, caps, fl) ==
    IF k > Len(xs) THEN <<[pos |-> i, caps |-> caps]>>
    ELSE ReThen(ReM(xs[k], s, i, caps, fl), 1, 0, xs, k + 1, s, fl)

\* the rest of a concatenation after each of the matches rs[lo], ..., rs[hi], in
\* their order; hi = 0 stands for the last of them (the list is halved so that
\* the depth of the evaluation stays small)
ReThen(rs, lo, hi, xs, k, s, fl) ==
    IF hi = 0 THEN (IF rs = <<>> THEN <<>> ELSE ReThen(rs, 1, Len(rs), xs, k, s, fl))
    ELSE IF lo > hi THEN <<>>
    ELSE IF lo = hi THEN ReSeq(xs, k, s, rs[lo].pos, rs[lo].caps, fl)
    ELSE ReThen(rs, lo, (lo + hi) \div 2, xs, k, s, fl)
         \o ReThen(rs, (lo + hi) \div 2 + 1, hi, xs, k, s, fl)

\* the alternatives xs[k], xs[k+1], ... in their order
ReAlt(xs, k, s, i, caps, fl) ==
    IF k > Len(xs) THEN <<>>
    ELSE ReM(xs[k], s, i, caps, fl) \o ReAlt(xs, k + 1, s, i, caps, fl)

\* whether the node n matches exactly one character, whatever the context
IsOneChar(n) == n.t = "ch" \/ n.t = "dot"

OneCharOk(n, s, i, fl) ==
    IF n.t = "ch" THEN ReCharOk(s[i], n, fl) ELSE fl.dotall \/ s[i] # "\n"

\* the length of the longest run of characters from position i on that the
\* one-character node n matches
RunLength(n, s, i, fl) ==
    IF i > Len(s) \/ ~OneCharOk(n, s, i, fl) THEN 0
    ELSE MinOf({j \in i..(Len(s) + 1) : j > Len(s) \/ ~OneCharOk(n, s, j, fl)}) - i

\* a repetition of a one-character node: the longest run first when greedy
ReRepRun(n, i, caps, most) ==
    [j \in 1..(IF most < n.lo THEN 0 ELSE most - n.lo + 1) |->
        [pos |-> i + (IF n.lazy THEN n.lo + j - 1 ELSE most - j + 1), caps |-> caps]]

ReRepMost(n, span) == IF n.hi = -1 THEN span ELSE Min2(span, n.hi)

ReRepChars(n, s, i, caps, fl) ==
    ReRepRun(n, i, caps, ReRepMost(n, RunLength(n.x, s, i, fl)))

\* a lazy repetition tries to stop before it tries one more round
ReRepOrder(lazy, more, stop) == IF lazy THEN stop \o more ELSE more \o stop

\* a repetition that has matched `done` times: one more round first when greedy,
\* stopping first when lazy
ReRep(n, done, s, i, caps, fl) ==
    IF IsOneChar(n.x) /\ done = 0 THEN ReRepChars(n, s, i, caps, fl)
    ELSE ReRepOrder(n.lazy,
                    IF n.hi = -1 \/ done < n.hi
                    THEN ReRepThen(ReM(n.x, s, i, caps, fl), 1, n, done + 1, s, i, fl)
                    ELSE <<>>,
                    IF done >= n.lo THEN <<[pos |-> i, caps |-> caps]>> ELSE <<>>)

\* the further rounds of a repetition after each of the matches rs[j], rs[j+1], ...
\* of its body (a round that matched the empty string ends the repetition)
ReRepThen(rs, j, n, done, s, from, fl) ==
    IF j > Len(rs) THEN <<>>
    ELSE (IF rs[j].pos > from
          THEN ReRep(n, done, s, rs[j].pos, rs[j].caps, fl)
          ELSE IF done >= n.lo THEN <<rs[j]>> ELSE <<>>)
         \o ReRepThen(rs, j + 1, n, done, s, from, fl)

\* pattern.match(s): the match at the start of s, or NoMatch
NoMatch == [start |-> 0]

\* the first of the matches rs found at position i
FirstMatch(rs, i) ==
    IF rs = <<>> THEN NoMatch ELSE [start |-> i, pos |-> rs[1].pos, caps |-> rs[1].caps]

ReMatchAt(p, ngroups, fl, s, i) == FirstMatch(ReM(p, s, i, NoCaps(ngroups), fl), i)

\* the positions of s at which the pattern p matches
ReStarts(p, ngroups, fl, s) ==
    {j \in 1..(Len(s) + 1) : ReM(p, s, j, NoCaps(ngroups), fl) # <<>>}

\* re.search(p, s): the leftmost match
ReSearchIn(p, ngroups, fl, s, starts) ==
    IF starts = {} THEN NoMatch ELSE ReMatchAt(p, ngroups, fl, s, MinOf(starts))

ReSearch(p, ngroups, fl, s) == ReSearchIn(p, ngroups, fl, s, ReStarts(p, ngroups, fl, s))

\* re.search(p, s) is not None
ReFound(p, fl, s) == \E j \in 1..(Len(s) + 1) : ReM(p, s, j, NoCaps(0), fl) # <<>>

\* the start of the match that follows the one at j in a left to right scan, 0
\* when there is none: the scan resumes where the match ended, one further on
\* after an empty match
ResumeAfter(m) == IF m.pos = m.start THEN m.pos + 1 ELSE m.pos

FirstFrom(starts, resume) ==
    IF \E k \in starts : k >= resume THEN MinOf({k \in starts : k >= resume}) ELSE 0

NextStart(p, ngroups, fl, s, starts, j) ==
    FirstFrom(starts, ResumeAfter(ReMatchAt(p, ngroups, fl, s, j)))

\* the starts the scan selects: those reached from the first by NextStart, found
\* by repeated doubling of the jump
RECURSIVE ScanClosure(_, _, _)
ScanClosure(reached, jump, n) ==
    IF n = 0 THEN reached
    ELSE ScanClosure(reached \cup ({jump[j] : j \in reached} \ {0}),
                     [j \in DOMAIN jump |-> jump[jump[j]]], n \div 2)

ReFindAllFrom(p, ngroups, fl, s, starts) ==
    IF starts = {} THEN {}
    ELSE ScanClosure({MinOf(starts)},
                     [j \in starts \cup {0} |->
                         IF j = 0 THEN 0 ELSE NextStart(p, ngroups, fl, s, starts, j)],
                     Len(s) + 1)

\* the k-th smallest element of a set of numbers
Nth(set, k) == CHOOSE x \in set : Cardinality({y \in set : y < x}) = k - 1

\* pattern.findall(s) / re.finditer(p, s): the non-overlapping matches, left to
\* right
ReMatchesAt(p, ngroups, fl, s, selected) ==
    [k \in 1..Cardinality(selected) |-> ReMatchAt(p, ngroups, fl, s, Nth(selected, k))]

ReFindAll(p, ngroups, fl, s) ==
    ReMatchesAt(p, ngroups, fl, s,
                ReFindAllFrom(p, ngroups, fl, s, ReStarts(p, ngroups, fl, s)))

\* the text of a match
MatchText(s, m) == SubSeq(s, m.start, m.pos - 1)

(***************************************************************************)
(* Module-level configuration of Script_Analyzer.py                        *)
(***************************************************************************)

ALLOWED_CHAR_COUNT == 85

\* the strings of a list of literals
Strs(names) == [i \in 1..Len(names) |-> S(names[i])]

OPERATORS ==
    Strs(<<"->", "<<", ">>", "==", "!=", "<=", ">=", "&&", "||", "+=", "-=", "*=",
           "&=", "|=", "^=", "+", "-", "*", "/", "%", "=", "<", ">", "&", "|", ",", "?">>)

FORMAT_SPECIFIERS ==
    Strs(<<"%c", "%d", "%e", "%E", "%f", "%g", "%G", "%i", "%ld", "%li", "%lf", "%Lf",
           "%lu", "%lli", "%lld", "%llu", "%o", "%p", "%s", "%u", "%x", "%X", "%n", "%%">>)

EXPORT_FUNCTIONS ==
    Strs(<<"STATUS hmc7043IfInit(", "STATUS hmc7043InitDev(",
           "STATUS hmc7043OutChEnDis(", "STATUS hmc7043ChDoSlip(",
           "STATUS hmc7043SetSysrefMode(", "STATUS hmc7043SysrefSwPulseN(",
           "STATUS hmc7043GetAlarm(", "STATUS hmc7043GetAlarms(",
           "STATUS hmc7043ClearAlarms(", "STATUS hmc7043RegRead(",
           "STATUS hmc7043RegWrite(">>)

\* the module-level list RESERVED_TYPES, the seed of an analyzer's set
RESERVED_TYPES_LIST ==
    Strs(<<"int", "short", "long", "long long", "float", "double", "long double", "char",
           "wchar_t", "char16_t", "char32_t", "bool", "void", "enum", "struct", "union",
           "CKDST_DEV", "CKDST_DEV_MASK", "CKDST_FREQ_HZ", "HMC7043_REG", "HMC7043_PRD_ID",
           "HMC7043_REG_READ", "HMC7043_REG_WRITE", "Hmc7043_dev_io_if",
           "HMC7043_DEV_CLKIN_DIV", "Hmc7043_dev_in_sup", "HMC7043_DEV_GPI_SUP",
           "HMC7043_DEV_GPO_SUP", "HMC7043_DEV_OUTPUT_MODE", "HMC7043_SREF_MODE",
           "HMC7043_SREF_NPULSES", "Hmc7043_dev_alarms", "HMC7043_CH_MODE",
           "HMC7043_CH_DRV_MODE", "HMC7043_CH_CML_INT_TERM", "HMC7043_CH_IDLE0",
           "HMC7043_CH_OUT_SEL", "Hmc7043_ch_sup", "HMC7043_CH_MASK",
           "Hmc7043_app_dev_params", "SYS_TIME", "SYS_TIME_NS", "SYS_TIME_EXT_TICKS",
           "SYS_TIME_EXT_SRC", "SYS_CODE_ERR_HANDLING", "CODE_ERROR_ID", "FUNCPTR",
           "SYS_CODE_ERR_APP_HOOK", "SOCKET", "IP_ADDR_V4", "SYS_THREAD_PRI",
           "Sys_thread_ctl_params", "SYS_THREAD_OPTS", "Sys_thread_args",
           "SYS_THREAD_FUNC", "HSYS_THREAD", "Sys_thread_per_serv_args", "SYS_LOG_LEVEL",
           "Sys_log_params", "SYS_LOG_EXT_HANDLER", "SYS_RT_THROTTLE_CTL",
           "Sys_sched_params", "SYS_SIG_MASK", "Sys_signal_handling", "Sys_util_params",
           "SYS_RESOURCE_DELETE_FUNC", "Utl_ffind", "UTL_FFIND_OPTS", "HUTL_MUTEX",
           "HUTL_QUEUE", "UTL_Q_STAT", "Utl_ffind_impl", "INT8", "UINT8", "INT16",
           "UINT16", "INT32", "UINT32", "INT64", "UINT64", "INT128", "UINT128", "ULONG",
           "UINT4PTR", "PHYSICAL_ADDRESS", "REAL32", "REAL64", "Bool", "UINT8_Bool",
           "STATUS", "UINT32_ATOMIC", "UINT64_ATOMIC", "DS7505_DEV_MASK", "const char">>)

UI_VARIABLES ==
    Strs(<<"unsigned", "UINT8", "UINT32", "UINT64", "HMC7043_REG", "HMC7043_PRD_ID",
           "CKDST_DEV", "CKDST_DEV_MASK", "CKDST_FREQ_HZ">>)

KNOWN_KEYWORDS ==
    Range(Strs(<<"const", "static", "extern", "if", "for", "while", "switch", "case",
                 "default", "break", "continue", "return", "goto", "else", "define",
                 "pragma", "sizeof", "typedef", "do", "void", "volatile", "register",
                 "restrict", "inline", "enum", "struct", "union">>))

\* the keys of self.counts, as __init__ creates them
CountKeys ==
    {"line_length_limit_check", "excess_whitespace_check", "operator_spacing_check",
     "pointer_naming_check", "address_print_check", "unsigned_print_check",
     "comment_check", "hex_value_check", "variable_declarations_check",
     "naming_conventions_check", "unsigned_logic_check", "replace_name_check",
     "spacing_between_routines_check", "brace_placement_check", "consistency_check"}

\* self.counts after __init__
InitialCounts == [r \in CountKeys |-> 0]

(***************************************************************************)
(* The file under analysis                                                 *)
(*                                                                         *)
(* A file is a sequence of raw lines, each a text and the terminator that  *)
(* follows it on disk: "LF", "CRLF", or "NONE" for a last line without     *)
(* one.  open(path, "r") reads in text mode with universal newlines, so    *)
(* what the program sees of either terminator is "\n".                     *)
(***************************************************************************)

RawLine(text, eol) == [text |-> text, eol |-> eol]

\* script_file.readlines(), and the lines `for line in script_file` yields
ReadLines(script_file) ==
    [i \in 1..Len(script_file) |->
        IF script_file[i].eol = "NONE" THEN script_file[i].text
        ELSE script_file[i].text \o <<"\n">>]

\* the concatenation of a list of strings
RECURSIVE Join(_)
Join(lines) == IF lines = <<>> THEN <<>> ELSE Head(lines) \o Join(Tail(lines))

\* script_file.read()
ReadAll(script_file) == Join(ReadLines(script_file))

(***************************************************************************)
(* What a checker does to the log and to self.counts                       *)
(*                                                                         *)
(* A log entry is a record: kind "violation" is a message reporting a      *)
(* style violation (rule: the counter the message belongs to), "detail"    *)
(* a message elaborating the violation before it, "error" the report of    *)
(* an exception, "info" any other message.                                 *)
(***************************************************************************)

Violation(rule, line) == [kind |-> "violation", rule |-> rule, line |-> line]

Detail(rule, line) == [kind |-> "detail", rule |-> rule, line |-> line]

Info(what) == [kind |-> "info", rule |-> what, line |-> 0]

ErrorMsg(what) == [kind |-> "error", rule |-> what, line |-> 0]

\* the effect of a checker: the messages it logs, the amounts it adds to counters
\* (counts[r] += n), the counters it assigns (counts[r] = n), and whether an
\* exception leaves the checker
Effect(msgs, add, set, raised) ==
    [log |-> msgs, add |-> add, set |-> set, raised |-> raised]

NoCounts == [r \in {} |-> 0]

\* counts[rule] += n
AddTo(rule, n) == [r \in {rule} |-> n]

\* the fault injected into one call of a checker: NoFault, or the number of lines
\* the checker has dealt with when an exception other than FileNotFoundError is
\* raised in it (0: raised by open() or by reading the file)
NoFault == -1

\* the lines a checker gets through
Reach(lines, fault) == IF fault = NoFault THEN Len(lines) ELSE Min2(fault, Len(lines))

\* the handler `except FileNotFoundError` of a checker: one error message
FileNotFound(checker) == Effect(<<ErrorMsg(checker)>>, NoCounts, NoCounts, FALSE)

(***************************************************************************)
(* check_name_replace                                                      *)
(***************************************************************************)

RECURSIVE NameReplaceScan(_, _, _)
NameReplaceScan(lines, i, upto) ==
    IF i > upto THEN <<>>
    ELSE (IF Contains(lines[i], S("EEPROM_H"))
          THEN <<Violation("replace_name_check", i)>> ELSE <<>>)
         \o NameReplaceScan(lines, i + 1, upto)

check_name_replace(script_file, present, fault) ==
    IF ~present THEN FileNotFound("check_name_replace")
    ELSE LET lines == ReadLines(script_file)
             found == NameReplaceScan(lines, 1, Reach(lines, fault))
         IN  Effect(found \o (IF fault = NoFault THEN <<Info("check_name_replace")>>
                              ELSE <<ErrorMsg("check_name_replace")>>),
                    AddTo("replace_name_check", Len(found)), NoCounts, FALSE)

(***************************************************************************)
(* check_line_length_limit                                                 *)
(***************************************************************************)

\* the length check_line_length_limit compares with ALLOWED_CHAR_COUNT
LineLength(line) == Len(line)

ExceedsLimit(line) == LineLength(line) > ALLOWED_CHAR_COUNT

\* the messages about one line that is too long
LineLengthMessages(line, n) ==
    LET char_at_85 == line[ALLOWED_CHAR_COUNT]
        words == SplitWS(line)
        stripped_line == RStrip(line)
    IN  <<Violation("line_length_limit_check", n)>>
        \o (IF \E k \in 1..Len(words) : Contains(words[k], <<char_at_85>>)
            THEN <<Detail("line_length_limit_check", n)>> ELSE <<>>)
        \o (IF stripped_line # <<>>
            THEN <<Detail("line_length_limit_check", n)>> ELSE <<>>)

RECURSIVE LineLengthScan(_, _, _)
LineLengthScan(lines, i, upto) ==
    IF i > upto THEN <<>>
    ELSE (IF ExceedsLimit(lines[i]) THEN LineLengthMessages(lines[i], i) ELSE <<>>)
         \o LineLengthScan(lines, i + 1, upto)

\* the number of violation messages of a list of log entries
Violations(msgs) == Cardinality({k \in 1..Len(msgs) : msgs[k].kind = "violation"})

check_line_length_limit(script_file, present, fault) ==
    IF ~present THEN FileNotFound("check_line_length_limit")
    ELSE LET lines == ReadLines(script_file)
             found == LineLengthScan(lines, 1, Reach(lines, fault))
         IN  Effect(found \o (IF fault = NoFault THEN <<Info("check_line_length_limit")>>
                              ELSE <<ErrorMsg("check_line_length_limit")>>),
                    AddTo("line_length_limit_check", Violations(found)), NoCounts, FALSE)

(***************************************************************************)
(* check_comments                                                          *)
(***************************************************************************)

\* the positions of the double quotes of a line
QuoteIndices(line) == {i \in 1..Len(line) : line[i] = "\""}

\* the number of string literals of a line (first with second quote, third with
\* fourth, ...) whose content has "//" in it
SlashesInStrings(line) ==
    LET q == QuoteIndices(line)
    IN  Cardinality({p \in 1..(Cardinality(q) \div 2) :
            Contains(SubSeq(line, Nth(q, 2 * p - 1) + 1, Nth(q, 2 * p) - 1), S("//"))})

\* the messages for the run of consecutive // comments collected so far
CommentRunFlush(span) ==
    IF Len(span) >= 1 THEN <<Violation("comment_check", span[1])>> ELSE <<>>

CommentsStep(st, raw, n) ==
    LET line == Strip(raw)
        strings == [k \in 1..SlashesInStrings(line) |-> Violation("comment_check", n)]
        isComment == Contains(line, S("//")) /\ ~st.in_string /\ ~st.in_multiline_comment
        comment_part == Strip(From(line, IndexOf(line, S("//")) + 2))
        opened == /\ Contains(line, S("/*"))
                  /\ ~st.in_string /\ ~st.in_multiline_comment
                  /\ ~Contains(line, S("*/"))
        in_ml == IF opened THEN TRUE
                 ELSE IF Contains(line, S("*/")) /\ st.in_multiline_comment THEN FALSE
                 ELSE st.in_multiline_comment
    IN  [log |-> st.log \o strings
                   \o (IF isComment THEN <<>> ELSE CommentRunFlush(st.consecutive_comments)),
         consecutive_comments |->
             IF isComment
             THEN (IF comment_part # <<>> THEN Append(st.consecutive_comments, n)
                   ELSE st.consecutive_comments)
             ELSE <<>>,
         in_multiline_comment |-> in_ml,
         in_string |-> IF CountChar(line, "\"") % 2 = 1 THEN ~st.in_string ELSE st.in_string]

RECURSIVE CommentsScan(_, _, _, _)
CommentsScan(lines, i, upto, st) ==
    IF i > upto THEN st
    ELSE CommentsScan(lines, i + 1, upto, CommentsStep(st, lines[i], i))

CommentsStart ==
    [log |-> <<>>, consecutive_comments |-> <<>>,
     in_multiline_comment |-> FALSE, in_string |-> FALSE]

check_comments(script_file, present, fault) ==
    IF ~present THEN FileNotFound("check_comments")
    ELSE LET lines == ReadLines(script_file)
             st == CommentsScan(lines, 1, Reach(lines, fault), CommentsStart)
             found == IF fault = NoFault
                      THEN st.log \o CommentRunFlush(st.consecutive_comments)
                      ELSE st.log
         IN  Effect(found \o (IF fault = NoFault THEN <<Info("check_comments")>>
                              ELSE <<ErrorMsg("check_comments")>>),
                    AddTo("comment_check", Violations(found)), NoCounts, FALSE)

(***************************************************************************)
(* is_valid_type_name and extract_global_declarations                      *)
(***************************************************************************)

\* Faulty variant for C9: a name is valid when the set does not have it yet
is_valid_type_name_not_reserved(type_name, reserved) == type_name \notin reserved

is_valid_type_name(type_name, reserved) ==
    ~(type_name \in KNOWN_KEYWORDS \/ type_name \in reserved)

\* typedef\s+<kind>\s+\{[^}]*\}\s*(\w+)\s*;   (also with LOCAL for typedef)
BracedDeclPattern(lead, kind) ==
    Cat(<<Lit(lead), Plus(ReSpace), Lit(kind), Plus(ReSpace), Lit("{"),
          Star(NCh({"}"})), Lit("}"), Star(ReSpace), Grp(1, Plus(ReWord)),
          Star(ReSpace), Lit(";")>>)

\* static\s+(\w+)\s+\w+\s*;   and the same with extern
StorageDeclPattern(storage) ==
    Cat(<<Lit(storage), Plus(ReSpace), Grp(1, Plus(ReWord)), Plus(ReSpace),
          Plus(ReWord), Star(ReSpace), Lit(";")>>)

\* the list `patterns`, in its order
patterns ==
    <<BracedDeclPattern("typedef", "struct"), BracedDeclPattern("LOCAL", "struct"),
      BracedDeclPattern("typedef", "enum"), BracedDeclPattern("typedef", "union"),
      StorageDeclPattern("static"), StorageDeclPattern("extern")>>

\* \w+\s+\w+
TypeAndName == Cat(<<Plus(ReWord), Plus(ReSpace), Plus(ReWord)>>)

\* (\w+)\s+\w+\s*\((\w+\s+\w+(,\s*\w+\s+\w+)*)\)
func_pattern ==
    Cat(<<Grp(1, Plus(ReWord)), Plus(ReSpace), Plus(ReWord), Star(ReSpace), Lit("("),
          Grp(2, Cat(<<TypeAndName,
                       Star(Grp(3, Cat(<<Lit(","), Star(ReSpace), TypeAndName>>)))>>)),
          Lit(")")>>)

\* match.strip() of every match of patterns[k], patterns[k+1], ... in content
RECURSIVE DeclCandidates(_, _)
DeclCandidates(content, k) ==
    IF k > Len(patterns) THEN <<>>
    ELSE LET ms == ReFindAll(patterns[k], 1, DotAllIgnoreCase, content)
         IN  [j \in 1..Len(ms) |-> Strip(ms[j].caps[1])] \o DeclCandidates(content, k + 1)

\* the type names taken from `params`: param.strip().split()[0] of every piece of
\* params.split(',') that has more than one part
ParamTypes(params) ==
    LET param_list == SplitOn(params, ",")
        parts(k) == SplitWS(Strip(param_list[k]))
        RECURSIVE Take(_)
        Take(k) == IF k > Len(param_list) THEN <<>>
                   ELSE (IF Len(parts(k)) > 1 THEN <<parts(k)[1]>> ELSE <<>>) \o Take(k + 1)
    IN  Take(1)

\* the tuple unpacking `return_type, func_name, params = match` of a findall
\* result: the three groups of func_pattern in their order
UnpackFuncMatch(m) ==
    [return_type |-> m.caps[1], func_name |-> m.caps[2], params |-> m.caps[3]]

\* the names checked for insertion because of the function signatures, in order
RECURSIVE FuncCandidates(_, _)
FuncCandidates(ms, j) ==
    IF j > Len(ms) THEN <<>>
    ELSE LET match == UnpackFuncMatch(ms[j])
         IN  <<match.return_type>> \o ParamTypes(match.params) \o FuncCandidates(ms, j + 1)

\* every name extract_global_declarations hands to is_valid_type_name, in order
TypeCandidates(content) ==
    DeclCandidates(content, 1)
    \o FuncCandidates(ReFindAll(func_pattern, 3, IgnoreCase, content), 1)

\* the names added to the set `reserved`, in the order of their insertion
RECURSIVE Insertions(_, _, _)
Insertions(cands, k, reserved) ==
    IF k > Len(cands) THEN <<>>
    ELSE IF is_valid_type_name(cands[k], reserved)
    THEN <<cands[k]>> \o Insertions(cands, k + 1, reserved \cup {cands[k]})
    ELSE Insertions(cands, k + 1, reserved)

\* extract_global_declarations: the names it inserts, the messages it logs
extract_global_declarations(script_file, present, fault, reserved) ==
    IF ~present
    THEN [added |-> <<>>, log |-> <<ErrorMsg("extract_global_declarations")>>]
    ELSE IF fault # NoFault
    THEN [added |-> <<>>, log |-> <<ErrorMsg("extract_global_declarations")>>]
    ELSE LET added == Insertions(TypeCandidates(ReadAll(script_file)), 1, reserved)
         IN  [added |-> added,
              log |-> [k \in 1..Len(added) |-> Info("extract_global_declarations")]
                      \o (IF added # <<>> THEN <<Info("extract_global_declarations")>>
                          ELSE <<>>)
                      \o <<Info("extract_global_declarations")>>]

(***************************************************************************)
(* check_brace_placement                                                   *)
(***************************************************************************)

control_structures ==
    Strs(<<"if", "else if", "else", "switch", "for", "while", "do", "case", "default">>)

function_patterns == Strs(<<"EXPORT STATUS", "LOCAL STATUS">>)

\* the loop `for control_structure in control_structures` on one line, from the
\* k-th structure on: b.log the messages so far, b.stack the stack
RECURSIVE BraceStructures(_, _, _, _)
BraceStructures(stripped_line, n, k, b) ==
    IF k > Len(control_structures) THEN b
    ELSE BraceStructures(stripped_line, n, k + 1,
             IF ~Contains(stripped_line, control_structures[k]) THEN b
             ELSE IF /\ Contains(stripped_line, S("{"))
                     /\ ~EndsWith(RStripChars(stripped_line, {"/", "*"}), S("{"))
             THEN [log |-> Append(b.log, Violation("brace_placement_check", n)),
                   stack |-> Append(b.stack, control_structures[k])]
             ELSE IF b.stack # <<>> /\ ~StartsWith(stripped_line, S("{"))
             THEN [b EXCEPT !.log = Append(b.log, Violation("brace_placement_check", n))]
             ELSE b)

\* the part of the loop body of check_brace_placement after the comment and
\* typedef/#define filters
BraceCheckLine(st, line, stripped_line, n) ==
    LET b == BraceStructures(stripped_line, n, 1, [log |-> st.log, stack |-> st.stack])
        pops == b.stack # <<>> /\ StartsWith(stripped_line, S("}"))
        afterPop ==
            IF pops
            THEN [log |-> IF ~EndsWith(stripped_line, S("}"))
                          THEN Append(b.log, Violation("brace_placement_check", n))
                          ELSE b.log,
                  stack |-> SubSeq(b.stack, 1, Len(b.stack) - 1)]
            ELSE b
    IN  IF \E k \in 1..Len(function_patterns) : Contains(line, function_patterns[k])
        THEN [st EXCEPT !.log = b.log, !.stack = b.stack]
        ELSE [st EXCEPT
                 !.log = IF /\ Contains(stripped_line, S("}"))
                            /\ ~StartsWith(stripped_line, S("}"))
                         THEN Append(afterPop.log, Violation("brace_placement_check", n))
                         ELSE afterPop.log,
                 !.stack = afterPop.stack]

BraceStep(st, line, n) ==
    LET stripped_line == Strip(line)
        in_ml == st.in_multiline_comment \/ Contains(stripped_line, S("/*"))
    IN  IF stripped_line = <<>> THEN st
        ELSE IF in_ml
        THEN [st EXCEPT !.in_multiline_comment = ~Contains(stripped_line, S("*/"))]
        ELSE IF Contains(stripped_line, S("//")) THEN st
        ELSE IF \/ StartsWith(stripped_line, S("typedef"))
                \/ Contains(RemoveChar(stripped_line, " "), S("#define"))
        THEN st
        ELSE BraceCheckLine(st, line, stripped_line, n)

RECURSIVE BraceScan(_, _, _, _)
BraceScan(lines, i, upto, st) ==
    IF i > upto THEN st ELSE BraceScan(lines, i + 1, upto, BraceStep(st, lines[i], i))

BraceStart == [log |-> <<>>, stack |-> <<>>, in_multiline_comment |-> FALSE]

\* An exception raised before the loop has bound line_number makes the handler
\* `except Exception` itself fail (its message formats line_number), so the
\* exception leaves the checker without a message.
check_brace_placement(script_file, present, fault) ==
    IF ~present THEN FileNotFound("check_brace_placement")
    ELSE LET lines == ReadLines(script_file)
             st == BraceScan(lines, 1, Reach(lines, fault), BraceStart)
         IN  IF fault = NoFault
             THEN Effect(st.log \o <<Info("check_brace_placement")>>,
                         AddTo("brace_placement_check", Violations(st.log)), NoCounts, FALSE)
             ELSE Effect(st.log \o (IF fault = 0 THEN <<>>
                                    ELSE <<ErrorMsg("check_brace_placement")>>),
                         AddTo("brace_placement_check", Violations(st.log)), NoCounts,
                         fault = 0)

(***************************************************************************)
(* check_variable_declaration                                              *)
(***************************************************************************)

\* \s*(EXPORT\s+|LOCAL\s+|STATIC\s+)?\w+\s+\w+\s*\([^)]*\)\s*{?$
function_pattern ==
    Cat(<<Star(ReSpace),
          Opt(Grp(1, Alt(<<Cat(<<Lit("EXPORT"), Plus(ReSpace)>>),
                           Cat(<<Lit("LOCAL"), Plus(ReSpace)>>),
                           Cat(<<Lit("STATIC"), Plus(ReSpace)>>)>>))),
          Plus(ReWord), Plus(ReSpace), Plus(ReWord), Star(ReSpace), Lit("("),
          Star(NCh({")"})), Lit(")"), Star(ReSpace), Opt(Lit("{")), Eol>>)

\* function_pattern.match(line) is not None
IsFunctionLine(line) == ReM(function_pattern, line, 1, NoCaps(1), NoFlags) # <<>>

\* line.strip().startswith(data_type) for some data_type of the reserved set
StartsWithReservedType(line, reserved) ==
    \E data_type \in reserved : StartsWith(Strip(line), data_type)

\* the variable_declarations_check message about the stripped line, if any
MisplacedDeclaration(st, line, n, reserved) ==
    IF /\ ~st.global_variable_declaration /\ ~st.in_control_data_block
       /\ StartsWithReservedType(line, reserved)
       /\ LET var_name == RemoveChar(Last(SplitWS(line)), ";")
          IN  /\ var_name \notin st.initialized_variables
              /\ ~EndsWith(line, S(";"))
              /\ ~Contains(line, S("="))
    THEN <<Violation("variable_declarations_check", n)>>
    ELSE <<>>

\* the end of the loop body: the function_pattern filter and the reserved-type check
VarDeclTail(st, line, n, reserved) ==
    IF IsFunctionLine(line) THEN st
    ELSE [st EXCEPT !.log = @ \o MisplacedDeclaration(st, line, n, reserved)]

\* the loop body of check_variable_declaration from the brace counting on, for a
\* stripped line that is neither empty nor the start of a comment.  The text before
\* the first "=" may be blank, and then [-1] of its split() raises IndexError.
VarDeclCheckLine(st, line, n, reserved) ==
    LET counted == [st EXCEPT
            !.block_open_count =
                st.block_open_count + (IF Contains(line, S("{")) THEN 1 ELSE 0)
                                    - (IF Contains(line, S("}")) THEN 1 ELSE 0)]
        before == SplitWS(Strip(SplitOn(line, "=")[1]))
        var_name == Last(before)
    IN  IF Contains(line, S("(")) \/ Contains(line, S(")")) THEN counted
        ELSE IF ~(Contains(line, S("=")) /\ EndsWith(Strip(line), S(";")))
        THEN VarDeclTail(counted, line, n, reserved)
        ELSE IF before = <<>> THEN [counted EXCEPT !.failed = TRUE]
        ELSE IF Contains(line, S("->")) \/ Contains(line, S(".")) THEN counted
        ELSE IF counted.block_open_count > 0 \/ var_name \notin counted.initialized_variables
        THEN VarDeclTail([counted EXCEPT !.initialized_variables = @ \cup {var_name}],
                         line, n, reserved)
        ELSE [counted EXCEPT
                 !.log = Append(counted.log, Violation("variable_initialization_check", n))]

VarDeclStep(st, raw, n, reserved) ==
    LET line == Strip(raw)
        included == [st EXCEPT !.global_variable_declaration =
                                   @ \/ StartsWith(line, S("#include"))]
        marked == IF /\ included.global_variable_declaration
                     /\ StartsWith(line, S("/* Control Data */"))
                  THEN [included EXCEPT !.global_variable_declaration = FALSE,
                                        !.in_control_data_block = TRUE]
                  ELSE included
    IN  IF line = <<>> THEN st
        ELSE IF StartsWith(line, S("//")) \/ StartsWith(line, S("/*")) THEN st
        ELSE VarDeclCheckLine(marked, line, n, reserved)

\* the scan stops at the line on which an exception is raised
RECURSIVE VarDeclScan(_, _, _, _, _)
VarDeclScan(lines, i, upto, st, reserved) ==
    IF i > upto \/ st.failed THEN st
    ELSE VarDeclScan(lines, i + 1, upto, VarDeclStep(st, lines[i], i, reserved), reserved)

VarDeclStart ==
    [log |-> <<>>, global_variable_declaration |-> FALSE, in_control_data_block |-> FALSE,
     block_open_count |-> 0, initialized_variables |-> {}, failed |-> FALSE]

\* the counter a violation message of check_variable_declaration is counted in:
\* only the declaration-ordering message has an increment next to it
check_variable_declaration(script_file, present, fault, reserved) ==
    IF ~present THEN FileNotFound("check_variable_declaration")
    ELSE LET lines == ReadLines(script_file)
             st == VarDeclScan(lines, 1, Reach(lines, fault), VarDeclStart, reserved)
             counted == {k \in 1..Len(st.log) : st.log[k].rule = "variable_declarations_check"}
         IN  Effect(st.log \o (IF fault = NoFault /\ ~st.failed
                               THEN <<Info("check_variable_declaration")>>
                               ELSE <<ErrorMsg("check_variable_declaration")>>),
                    AddTo("variable_declarations_check", Cardinality(counted)),
                    NoCounts, FALSE)

(***************************************************************************)
(* The block-comment filter shared by check_naming_conventions,            *)
(* check_hex_values, check_consistency and check_excess_whitespace         *)
(***************************************************************************)

\* in_multiline_comment at the test `if in_multiline_comment or ...` of a line
InCommentAt(in_ml, line) == in_ml \/ Contains(line, S("/*"))

\* whether the loop body skips the line
SkipsAsComment(in_ml, line) == InCommentAt(in_ml, line) \/ StartsWith(line, S("//"))

\* in_multiline_comment after the line
InCommentAfter(in_ml, line) ==
    IF SkipsAsComment(in_ml, line) /\ Contains(line, S("*/")) THEN FALSE
    ELSE InCommentAt(in_ml, line)

(***************************************************************************)
(* check_naming_conventions                                                *)
(***************************************************************************)

\* the messages asking for the EXPORT prefix: one for each listed function named
\* on the line without it
ExportMessages(line, n) ==
    LET missing == {k \in 1..Len(EXPORT_FUNCTIONS) :
                       /\ Contains(line, EXPORT_FUNCTIONS[k])
                       /\ ~StartsWith(Strip(line), S("EXPORT ") \o EXPORT_FUNCTIONS[k])}
    IN  [k \in 1..Cardinality(missing) |-> Violation("naming_conventions_check", n)]

\* the message asking for the LOCAL prefix
LocalMessages(line, n) ==
    IF /\ ~\E k \in 1..Len(EXPORT_FUNCTIONS) : Contains(line, EXPORT_FUNCTIONS[k])
       /\ StartsWith(line, S("STATUS "))
       /\ Contains(line, S("(")) /\ Contains(line, S(")"))
       /\ LET func_parts == SplitOn(SplitOn(line, " ")[2], "(")
          IN  /\ Len(func_parts) > 1
              /\ func_parts[1] \notin Range(EXPORT_FUNCTIONS)
    THEN <<Violation("naming_conventions_check", n)>>
    ELSE <<>>

RECURSIVE NamingScan(_, _, _, _)
NamingScan(lines, i, upto, st) ==
    IF i > upto THEN st
    ELSE NamingScan(lines, i + 1, upto,
             [log |-> IF SkipsAsComment(st.in_multiline_comment, lines[i]) THEN st.log
                      ELSE st.log \o ExportMessages(lines[i], i) \o LocalMessages(lines[i], i),
              in_multiline_comment |-> InCommentAfter(st.in_multiline_comment, lines[i])])

CommentFilterStart == [log |-> <<>>, in_multiline_comment |-> FALSE]

check_naming_conventions(script_file, present, fault) ==
    IF ~present THEN FileNotFound("check_naming_conventions")
    ELSE LET lines == ReadLines(script_file)
             st == NamingScan(lines, 1, Reach(lines, fault), CommentFilterStart)
         IN  Effect(st.log \o (IF fault = NoFault THEN <<Info("check_naming_conventions")>>
                               ELSE <<ErrorMsg("check_naming_conventions")>>),
                    AddTo("naming_conventions_check", Violations(st.log)), NoCounts, FALSE)

(***************************************************************************)
(* check_spacing_between_routines                                          *)
(***************************************************************************)

\* the number of blank lines the checker compares empty_lines_count with
RoutineGap == 4

\* "/" followed by 79 asterisks, and 79 asterisks followed by "/"
BannerOpen == <<"/">> \o [k \in 1..79 |-> "*"]

BannerClose == [k \in 1..79 |-> "*"] \o <<"/">>

SpacingStep(st, raw, n) ==
    LET line == Strip(raw)
        gap == st.empty_lines_count = RoutineGap
    IN  IF line = <<>> THEN [st EXCEPT !.empty_lines_count = @ + 1]
        ELSE IF gap /\ StartsWith(line, BannerOpen)
        THEN [st EXCEPT !.empty_lines_count = 0, !.comment_block = TRUE]
        ELSE IF st.comment_block /\ EndsWith(line, BannerClose)
        THEN [st EXCEPT !.empty_lines_count = RoutineGap, !.comment_block = FALSE]
        ELSE IF gap /\ StartsWith(line, S("int main()"))
        THEN [st EXCEPT !.found_main = TRUE]
        ELSE IF ~st.comment_block /\ gap /\ StartsWith(line, S("* - name:"))
        THEN [st EXCEPT !.log = Append(@, Violation("spacing_between_routines_check", n)),
                        !.empty_lines_count = 0]
        ELSE IF ~st.comment_block /\ gap /\ EndsWith(line, S("}"))
        THEN [st EXCEPT !.log = Append(@, Violation("spacing_between_routines_check", n)),
                        !.empty_lines_count = 0]
        ELSE [st EXCEPT !.empty_lines_count = 0]

\* the loop ends at `break`, when int main() is found
RECURSIVE SpacingScan(_, _, _, _)
SpacingScan(lines, i, upto, st) ==
    IF i > upto \/ st.found_main THEN st
    ELSE SpacingScan(lines, i + 1, upto, SpacingStep(st, lines[i], i))

SpacingStart ==
    [log |-> <<>>, empty_lines_count |-> 0, comment_block |-> FALSE, found_main |-> FALSE]

\* the file is read line by line while it is scanned: a read error arrives when
\* the loop asks for the line after the last one it dealt with, unless the loop
\* has ended before
check_spacing_between_routines(script_file, present, fault) ==
    IF ~present THEN FileNotFound("check_spacing_between_routines")
    ELSE LET lines == ReadLines(script_file)
             st == SpacingScan(lines, 1, Reach(lines, fault), SpacingStart)
             completes == fault = NoFault \/ st.found_main
         IN  Effect(st.log \o (IF completes THEN <<Info("check_spacing_between_routines")>>
                               ELSE <<ErrorMsg("check_spacing_between_routines")>>),
                    AddTo("spacing_between_routines_check", Violations(st.log)),
                    NoCounts, FALSE)

(***************************************************************************)
(* check_hex_values                                                        *)
(***************************************************************************)

\* 0x[A-F0-9]+
hex_pattern == Cat(<<Lit("0x"), Plus(Ch(Range(S("ABCDEF")) \cup Digits))>>)

\* any(char.isupper() for char in hex_value)
HasUpper(hex_value) == \E k \in 1..Len(hex_value) : IsUpperChar(hex_value[k])

\* the messages about the hex literals of one line
HexMessages(line, n) ==
    LET hex_values == ReFindAll(hex_pattern, 0, NoFlags, line)
        flagged == {k \in 1..Len(hex_values) : HasUpper(MatchText(line, hex_values[k]))}
    IN  [k \in 1..Cardinality(flagged) |-> Violation("hex_value_check", n)]

RECURSIVE HexScan(_, _, _, _)
HexScan(lines, i, upto, st) ==
    IF i > upto THEN st
    ELSE HexScan(lines, i + 1, upto,
             [log |-> IF SkipsAsComment(st.in_multiline_comment, lines[i]) THEN st.log
                      ELSE st.log \o HexMessages(lines[i], i),
              in_multiline_comment |-> InCommentAfter(st.in_multiline_comment, lines[i])])

\* check_hex_values has no handler but `except FileNotFoundError`: any other
\* exception leaves it
check_hex_values(script_file, present, fault) ==
    IF ~present THEN FileNotFound("check_hex_values")
    ELSE LET lines == ReadLines(script_file)
             st == HexScan(lines, 1, Reach(lines, fault), CommentFilterStart)
         IN  Effect(st.log \o (IF fault = NoFault THEN <<Info("check_hex_values")>> ELSE <<>>),
                    AddTo("hex_value_check", Violations(st.log)), NoCounts, fault # NoFault)

(***************************************************************************)
(* check_consistency                                                       *)
(***************************************************************************)

\* the line-ending styles the loop body records for one line
LineEndingOf(line) ==
    IF Contains(line, <<"\r", "\n">>) THEN {"CRLF"}
    ELSE IF Contains(line, <<"\n">>) THEN {"LF"}
    ELSE {}

RECURSIVE ConsistencyScan(_, _, _, _)
ConsistencyScan(lines, i, upto, st) ==
    IF i > upto THEN st
    ELSE ConsistencyScan(lines, i + 1, upto,
             [line_endings |-> IF SkipsAsComment(st.in_multiline_comment, lines[i])
                               THEN st.line_endings
                               ELSE st.line_endings \cup LineEndingOf(lines[i]),
              in_multiline_comment |-> InCommentAfter(st.in_multiline_comment, lines[i])])

check_consistency(script_file, present, fault) ==
    IF ~present THEN FileNotFound("check_consistency")
    ELSE LET lines == ReadLines(script_file)
             st == ConsistencyScan(lines, 1, Reach(lines, fault),
                                   [line_endings |-> {}, in_multiline_comment |-> FALSE])
             found == IF fault = NoFault /\ Cardinality(st.line_endings) > 1
                      THEN <<Violation("consistency_check", 0)>> ELSE <<>>
         IN  Effect(found \o (IF fault = NoFault THEN <<Info("check_consistency")>>
                              ELSE <<ErrorMsg("check_consistency")>>),
                    AddTo("consistency_check", Len(found)), NoCounts, FALSE)

(***************************************************************************)
(* check_excess_whitespace                                                 *)
(***************************************************************************)

\* (\S+)\s{2,}(\S+)
excess_whitespace_pattern ==
    Cat(<<Grp(1, Plus(ReNonSpace)), Rep(ReSpace, 2, -1), Grp(2, Plus(ReNonSpace))>>)

WhitespaceMessages(line, n) ==
    [k \in 1..Len(ReFindAll(excess_whitespace_pattern, 2, NoFlags, line)) |->
        Violation("excess_whitespace_check", n)]

RECURSIVE WhitespaceScan(_, _, _, _)
WhitespaceScan(lines, i, upto, st) ==
    IF i > upto THEN st
    ELSE WhitespaceScan(lines, i + 1, upto,
             [log |-> IF SkipsAsComment(st.in_multiline_comment, lines[i]) THEN st.log
                      ELSE st.log \o WhitespaceMessages(lines[i], i),
              in_multiline_comment |-> InCommentAfter(st.in_multiline_comment, lines[i])])

check_excess_whitespace(script_file, present, fault) ==
    IF ~present THEN FileNotFound("check_excess_whitespace")
    ELSE LET lines == ReadLines(script_file)
             st == WhitespaceScan(lines, 1, Reach(lines, fault), CommentFilterStart)
         IN  Effect(st.log \o (IF fault = NoFault THEN <<Info("check_excess_whitespace")>>
                               ELSE <<ErrorMsg("check_excess_whitespace")>>),
                    AddTo("excess_whitespace_check", Violations(st.log)), NoCounts, FALSE)

(***************************************************************************)
(* check_unsigned_variables                                                *)
(***************************************************************************)

\* a|b|c for a list of literal strings
AnyOf(strs) == Alt([k \in 1..Len(strs) |-> LitSeq(strs[k])])

\* \b(?:unsigned|UINT8|...)\s+(\w+)\b
declaration_pattern ==
    Cat(<<WordB, AnyOf(UI_VARIABLES), Plus(ReSpace), Grp(1, Plus(ReWord)), WordB>>)

\* '\n'.join(lines)
RECURSIVE JoinLines(_)
JoinLines(lines) ==
    IF lines = <<>> THEN <<>>
    ELSE IF Len(lines) = 1 THEN lines[1]
    ELSE lines[1] \o <<"\n">> \o JoinLines(Tail(lines))

\* re.findall(declaration_pattern, '\n'.join(lines)): the declared names
VariableDeclarations(lines) ==
    LET ms == ReFindAll(declaration_pattern, 1, NoFlags, JoinLines(lines))
    IN  [k \in 1..Len(ms) |-> ms[k].caps[1]]

\* sysLog\("(.*?)(%d|%i)(.*?)",\s*(.*?)\)
syslog_pattern ==
    Cat(<<Lit("sysLog(\""), Grp(1, LazyStar(Dot)), Grp(2, Alt(<<Lit("%d"), Lit("%i")>>)),
          Grp(3, LazyStar(Dot)), Lit("\","), Star(ReSpace), Grp(4, LazyStar(Dot)),
          Lit(")")>>)

\* \b(unsigned|UINT8|...)\s+nBytes\b
nbytes_pattern ==
    Cat(<<WordB, Grp(1, AnyOf(UI_VARIABLES)), Plus(ReSpace), Lit("nBytes"), WordB>>)

\* the message about the declaration of nBytes on a line
NBytesMessages(line, n) ==
    LET nbytes_match == ReSearch(nbytes_pattern, 1, NoFlags, line)
    IN  IF nbytes_match # NoMatch /\ nbytes_match.caps[1] # S("unsigned")
        THEN <<Violation("unsigned_print_check", n)>> ELSE <<>>

\* the messages about one sysLog call: one for each argument that is a declared
\* unsigned variable
SysLogCallMessages(match, n, variable_declarations) ==
    LET format_specifier == match.caps[2]
        arguments == SplitOn(match.caps[4], ",")
        bad == {k \in 1..Len(arguments) :
                   /\ Strip(arguments[k]) \in Range(variable_declarations)
                   /\ format_specifier # S("%u")}
    IN  [k \in 1..Cardinality(bad) |-> Violation("unsigned_print_check", n)]

RECURSIVE SysLogMessages(_, _, _, _)
SysLogMessages(ms, j, n, variable_declarations) ==
    IF j > Len(ms) THEN <<>>
    ELSE SysLogCallMessages(ms[j], n, variable_declarations)
         \o SysLogMessages(ms, j + 1, n, variable_declarations)

RECURSIVE UnsignedVarsScan(_, _, _, _)
UnsignedVarsScan(lines, i, upto, variable_declarations) ==
    IF i > upto THEN <<>>
    ELSE NBytesMessages(lines[i], i)
         \o SysLogMessages(ReFindAll(syslog_pattern, 4, NoFlags, lines[i]), 1, i,
                           variable_declarations)
         \o UnsignedVarsScan(lines, i + 1, upto, variable_declarations)

check_unsigned_variables(script_file, present, fault) ==
    IF ~present THEN FileNotFound("check_unsigned_variables")
    ELSE LET lines == ReadLines(script_file)
             found == UnsignedVarsScan(lines, 1, Reach(lines, fault),
                                       VariableDeclarations(lines))
         IN  Effect(found \o (IF fault = NoFault THEN <<Info("check_unsigned_variables")>>
                              ELSE <<ErrorMsg("check_unsigned_variables")>>),
                    AddTo("unsigned_print_check", Len(found)), NoCounts, FALSE)

(***************************************************************************)
(* check_operator_spacing                                                  *)
(***************************************************************************)

\* //.*   /\*.*?\*/   /\*   \*/
single_line_comment_pattern == Cat(<<Lit("//"), Star(Dot)>>)

multi_line_comment_pattern == Cat(<<Lit("/*"), LazyStar(Dot), Lit("*/")>>)

multi_line_comment_start == Lit("/*")

multi_line_comment_end == Lit("*/")

\* ^\s*#(include|pragma)
preprocessor_directive_pattern ==
    Cat(<<Bol, Star(ReSpace), Lit("#"), Grp(1, Alt(<<Lit("include"), Lit("pragma")>>))>>)

\* the operators of the table other than ++ and --, as one alternation
operator_pattern ==
    Grp(1, AnyOf(SelectSeq(OPERATORS, LAMBDA op : op \notin {S("++"), S("--")})))

format_specifier_pattern == AnyOf(FORMAT_SPECIFIERS)

\* \*p[A-Z]   \*[a-oq-zA-Z]   \*\w+
correct_pointer_pattern == Cat(<<Lit("*p"), Ch(Upper)>>)

incorrect_pointer_pattern == Cat(<<Lit("*"), Ch((Lower \ {"p"}) \cup Upper)>>)

pointer_declaration_pattern == Cat(<<Lit("*"), Plus(ReWord)>>)

\* (?<!\S)<operator>(?!\S)
spaced_operator_pattern(operator) ==
    Cat(<<NotAfterNonSpace, LitSeq(operator), NotBeforeNonSpace>>)

\* pattern.sub('', line): the line without the matches of the pattern
RECURSIVE CutMatches(_, _, _)
CutMatches(line, ms, k) ==
    IF k > Len(ms) THEN line
    ELSE LET rest == CutMatches(line, ms, k + 1)
         IN  SubSeq(rest, 1, ms[k].start - 1) \o From(rest, ms[k].pos)

ReSubEmpty(p, fl, line) == CutMatches(line, ReFindAll(p, 0, fl, line), 1)

\* the operators of the line without a properly spaced occurrence on it
BadlySpacedOperators(line) ==
    LET operators_found == ReFindAll(operator_pattern, 1, NoFlags, line)
    IN  {MatchText(line, operators_found[k]) : k \in 1..Len(operators_found)}
        \ {op \in Range(OPERATORS) : ReFound(spaced_operator_pattern(op), NoFlags, line)}

\* what the loop body makes of one line that is not inside a block comment:
\* "skip", "pointer" (a pointer naming message), "operators" (an entry of
\* lines_with_errors) or "clean"
OperatorLineKind(raw) ==
    LET line == ReSubEmpty(multi_line_comment_pattern, NoFlags, raw)
    IN  IF \/ ReFound(single_line_comment_pattern, NoFlags, raw)
           \/ ReFound(preprocessor_directive_pattern, NoFlags, raw)
        THEN "skip"
        ELSE IF ReFound(format_specifier_pattern, NoFlags, raw) THEN "skip"
        ELSE IF Contains(line, S("++")) \/ Contains(line, S("--")) THEN "skip"
        ELSE IF /\ ReFound(incorrect_pointer_pattern, NoFlags, line)
                /\ ~ReFound(correct_pointer_pattern, NoFlags, line)
        THEN "pointer"
        ELSE IF ReFound(pointer_declaration_pattern, NoFlags, line) THEN "skip"
        ELSE IF BadlySpacedOperators(line) # {} THEN "operators"
        ELSE "clean"

OperatorStep(st, line, n) ==
    IF st.in_multi_line_comment
    THEN [st EXCEPT !.in_multi_line_comment = ~ReFound(multi_line_comment_end, NoFlags, line)]
    ELSE IF ReFound(multi_line_comment_start, NoFlags, line)
    THEN [st EXCEPT !.in_multi_line_comment = TRUE]
    ELSE LET kind == OperatorLineKind(line)
         IN  [st EXCEPT
                 !.log = IF kind = "pointer"
                         THEN Append(@, Violation("pointer_naming_check", n)) ELSE @,
                 !.lines_with_errors = IF kind = "operators" THEN @ \cup {n} ELSE @]

RECURSIVE OperatorScan(_, _, _, _)
OperatorScan(lines, i, upto, st) ==
    IF i > upto THEN st ELSE OperatorScan(lines, i + 1, upto, OperatorStep(st, lines[i], i))

OperatorStart == [log |-> <<>>, lines_with_errors |-> {}, in_multi_line_comment |-> FALSE]

\* the messages of `for line_number, operators in sorted(lines_with_errors.items())`
OperatorMessages(lines_with_errors) ==
    [k \in 1..Cardinality(lines_with_errors) |->
        Violation("operator_spacing_check", Nth(lines_with_errors, k))]

\* the two counters are assigned, not incremented, and only when the scan has
\* come to its end
check_operator_spacing(script_file, present, fault) ==
    IF ~present THEN FileNotFound("check_operator_spacing")
    ELSE LET lines == ReadLines(script_file)
             st == OperatorScan(lines, 1, Reach(lines, fault), OperatorStart)
             operators == OperatorMessages(st.lines_with_errors)
         IN  IF fault = NoFault
             THEN Effect(st.log \o operators
                             \o <<Info("check_operator_spacing"), Info("check_operator_spacing")>>,
                         NoCounts,
                         [r \in {"operator_spacing_check", "pointer_naming_check"} |->
                             IF r = "operator_spacing_check" THEN Len(operators)
                             ELSE Len(st.log)],
                         FALSE)
             ELSE Effect(st.log \o <<ErrorMsg("check_operator_spacing")>>,
                         NoCounts, NoCounts, FALSE)

(***************************************************************************)
(* check_unsigned_logic                                                    *)
(***************************************************************************)

\* \b(<name>|<name>|...)\s*<=?\s*0 for the declared names; with no name the group
\* is empty and matches the empty string
check_pattern(variable_declarations) ==
    Cat(<<WordB,
          Grp(1, IF variable_declarations = <<>> THEN Cat(<<>>)
                 ELSE AnyOf(variable_declarations)),
          Star(ReSpace), Lit("<"), Opt(Lit("=")), Star(ReSpace), Lit("0")>>)

\* Faulty variant for C13: one message for every match of the pattern in a line
RECURSIVE UnsignedLogicScanEveryMatch(_, _, _, _)
UnsignedLogicScanEveryMatch(lines, i, upto, pattern) ==
    IF i > upto THEN <<>>
    ELSE [k \in 1..Len(ReFindAll(pattern, 1, NoFlags, lines[i])) |->
             Violation("unsigned_logic_check", i)]
         \o UnsignedLogicScanEveryMatch(lines, i + 1, upto, pattern)

RECURSIVE UnsignedLogicScan(_, _, _, _)
UnsignedLogicScan(lines, i, upto, pattern) ==
    IF i > upto THEN <<>>
    ELSE (IF ReFound(pattern, NoFlags, lines[i])
          THEN <<Violation("unsigned_logic_check", i)>> ELSE <<>>)
         \o UnsignedLogicScan(lines, i + 1, upto, pattern)

\* error_count is added to the counter after the loop
check_unsigned_logic(script_file, present, fault) ==
    IF ~present THEN FileNotFound("check_unsigned_logic")
    ELSE LET lines == ReadLines(script_file)
             found == UnsignedLogicScan(lines, 1, Reach(lines, fault),
                                        check_pattern(VariableDeclarations(lines)))
         IN  IF fault = NoFault
             THEN Effect(found \o <<Info("check_unsigned_logic")>>,
                         AddTo("unsigned_logic_check", Len(found)), NoCounts, FALSE)
             ELSE Effect(found \o <<ErrorMsg("check_unsigned_logic")>>,
                         NoCounts, NoCounts, FALSE)

\* variable = match.group(1) for line n: the name the message of the line gives
UnsignedLogicVariable(lines, n) ==
    ReSearch(check_pattern(VariableDeclarations(lines)), 1, NoFlags, lines[n]).caps[1]

(***************************************************************************)
(* check_address_print_format                                              *)
(***************************************************************************)

\* %([-+ 0#]{0,3})(\d+|\*)?(\.\d+|\.\*)?  : the start of a conversion specifier
SpecifierHead ==
    <<Lit("%"), Grp(3, Rep(Ch({"-", "+", " ", "0", "#"}), 0, 3)),
      Opt(Grp(4, Alt(<<Plus(ReDigit), Lit("*")>>))),
      Opt(Grp(5, Alt(<<Cat(<<Lit("."), Plus(ReDigit)>>), Lit(".*")>>)))>>

\* (sysLog|printf|sprintf|fprintf|scanf)\s*\(".*?(addr|address).*?%...([hl]{0,2}x)
print_pattern ==
    Cat(<<Grp(1, Alt(<<Lit("sysLog"), Lit("printf"), Lit("sprintf"), Lit("fprintf"),
                       Lit("scanf")>>)),
          Star(ReSpace), Lit("(\""), LazyStar(Dot),
          Grp(2, Alt(<<Lit("addr"), Lit("address")>>)), LazyStar(Dot)>>
        \o SpecifierHead
        \o <<Grp(6, Cat(<<Rep(Ch({"h", "l"}), 0, 2), Lit("x")>>))>>)

\* %...([hl]{0,2}[diufFeEgGpoaAcsn])
any_format_pattern ==
    Cat(SpecifierHead
        \o <<Grp(6, Cat(<<Rep(Ch({"h", "l"}), 0, 2), Ch(Range(S("diufFeEgGpoaAcsn")))>>))>>)

\* whether the loop body reports the line
AddressLineFlagged(line) ==
    /\ ReFound(print_pattern, IgnoreCase, line)
    /\ ReFound(any_format_pattern, NoFlags, line)

RECURSIVE AddressScan(_, _, _)
AddressScan(lines, i, upto) ==
    IF i > upto THEN <<>>
    ELSE (IF AddressLineFlagged(lines[i])
          THEN <<Violation("address_print_check", i)>> ELSE <<>>)
         \o AddressScan(lines, i + 1, upto)

\* error_count is added to the counter after the loop
check_address_print_format(script_file, present, fault) ==
    IF ~present THEN FileNotFound("check_address_print_format")
    ELSE LET lines == ReadLines(script_file)
             found == AddressScan(lines, 1, Reach(lines, fault))
         IN  IF fault = NoFault
             THEN Effect(found \o <<Info("check_address_print_format")>>,
                         AddTo("address_print_check", Len(found)), NoCounts, FALSE)
             ELSE Effect(found \o <<ErrorMsg("check_address_print_format")>>,
                         NoCounts, NoCounts, FALSE)

(***************************************************************************)
(* check_include_directive and check_variable_initialization: defined by   *)
(* ScriptAnalyzer but called by no step of run_analysis.  Each increments  *)
(* a counter of its own; `keys` is the set of keys of self.counts at the   *)
(* call, and the increment (or the read) of a counter that is not a key    *)
(* raises KeyError, which the checker's own handler reports: the counter   *)
(* of the Effect is then one that self.counts does not have.               *)
(***************************************************************************)

IncludeStep(st, line, n, keys) ==
    LET stripped_line == Strip(line)
        in_ml == st.in_multiline_comment \/ Contains(stripped_line, S("/*"))
    IN  IF stripped_line = <<>> THEN st
        ELSE IF in_ml
        THEN [st EXCEPT !.in_multiline_comment = ~Contains(stripped_line, S("*/"))]
        ELSE IF StartsWith(stripped_line, S("//")) THEN st
        ELSE IF StartsWith(stripped_line, S("#include "))
        THEN IF st.code_found
             THEN [st EXCEPT !.log = Append(@, Violation("include_directive_check", n)),
                             !.failed = "include_directive_check" \notin keys]
             ELSE [st EXCEPT !.include_directive_found = TRUE]
        ELSE [st EXCEPT !.code_found = TRUE]

RECURSIVE IncludeScan(_, _, _, _, _)
IncludeScan(lines, i, upto, st, keys) ==
    IF i > upto \/ st.failed THEN st
    ELSE IncludeScan(lines, i + 1, upto, IncludeStep(st, lines[i], i, keys), keys)

IncludeStart ==
    [log |-> <<>>, in_multiline_comment |-> FALSE, include_directive_found |-> FALSE,
     code_found |-> FALSE, failed |-> FALSE]

check_include_directive(script_file, present, fault, keys) ==
    IF ~present THEN FileNotFound("check_include_directive")
    ELSE LET lines == ReadLines(script_file)
             st == IncludeScan(lines, 1, Reach(lines, fault), IncludeStart, keys)
             missing == IF fault = NoFault /\ ~st.failed /\ ~st.include_directive_found
                        THEN <<Violation("include_directive_check", 0)>> ELSE <<>>
             found == st.log \o missing
         IN  Effect(found \o (IF fault = NoFault /\ "include_directive_check" \in keys
                              THEN <<Info("check_include_directive")>>
                              ELSE <<ErrorMsg("check_include_directive")>>),
                    AddTo("include_directive_check", Len(found)), NoCounts, FALSE)

\* \w+\s+\w+\(.*\)\s*{?$
initialization_function_pattern ==
    Cat(<<Plus(ReWord), Plus(ReSpace), Plus(ReWord), Lit("("), Star(Dot), Lit(")"),
          Star(ReSpace), Opt(Lit("{")), Eol>>)

\* whether the loop body reports the stripped line as an initialisation at a
\* declaration; the types are those of the module's list, not of the analyzer's set
InitializedAtDeclaration(line) ==
    /\ \E k \in 1..Len(RESERVED_TYPES_LIST) : StartsWith(Strip(line), RESERVED_TYPES_LIST[k])
    /\ ReM(initialization_function_pattern, line, 1, NoCaps(0), NoFlags) = <<>>
    /\ Contains(line, S("="))

VarInitStep(st, raw, n, keys) ==
    LET line == Strip(raw)
        gvd == IF StartsWith(line, S("#include")) THEN TRUE
               ELSE st.global_variable_declaration
        global == gvd /\ ~StartsWith(line, S("/* Control Data */"))
    IN  IF Contains(line, S("{")) /\ EndsWith(line, S("{"))
        THEN [st EXCEPT !.global_variable_declaration = FALSE]
        ELSE IF ~global /\ InitializedAtDeclaration(line)
        THEN [st EXCEPT !.global_variable_declaration = global,
                        !.log = Append(@, Violation("variable_initialization_check", n)),
                        !.failed = "variable_initialization_check" \notin keys]
        ELSE [st EXCEPT !.global_variable_declaration = global]

RECURSIVE VarInitScan(_, _, _, _, _)
VarInitScan(lines, i, upto, st, keys) ==
    IF i > upto \/ st.failed THEN st
    ELSE VarInitScan(lines, i + 1, upto, VarInitStep(st, lines[i], i, keys), keys)

VarInitStart == [log |-> <<>>, global_variable_declaration |-> FALSE, failed |-> FALSE]

check_variable_initialization(script_file, present, fault, keys) ==
    IF ~present THEN FileNotFound("check_variable_initialization")
    ELSE LET lines == ReadLines(script_file)
             st == VarInitScan(lines, 1, Reach(lines, fault), VarInitStart, keys)
         IN  Effect(st.log \o (IF fault = NoFault /\ "variable_initialization_check" \in keys
                               THEN <<Info("check_variable_initialization")>>
                               ELSE <<ErrorMsg("check_variable_initialization")>>),
                    AddTo("variable_initialization_check", Len(st.log)), NoCounts, FALSE)

(***************************************************************************)
(* run_analysis as a state machine                                         *)
(*                                                                         *)
(* One ScriptAnalyzer at a time works on the file at script_path.  A call  *)
(* of run_analysis is a sequence of steps: its entry, one step for each    *)
(* call of a checker in its own try block, the summary, and the hand-over  *)
(* to send_email.  An exception other than FileNotFoundError in a checker  *)
(* (the file cannot be read or decoded) is an input of the step.           *)
(***************************************************************************)

\* the calls of run_analysis on the file, over all analyzers
MaxRuns == 2

\* the exceptions injected into checkers, over all runs
MaxFaults == 1

\* the number of lines an iterating checker has read when the exception injected
\* into it is raised
MaxFaultLine == 1

VARIABLES
    file,            \* the lines of the file at script_path
    ext,             \* script_path.suffix.lower()
    exists,          \* whether open(script_path) finds the file
    RESERVED_TYPES,  \* self.RESERVED_TYPES
    counts,          \* self.counts
    error_count,     \* self.error_count
    log,             \* the messages logged since the entry of the current call
    pc,              \* where the analyzer is: "idle", "rules", "summary", "email",
                     \* "done", or "direct" after a direct call of a checker
    ran,             \* the checkers called so far in the current run_analysis
    faulted,         \* those of them in which an exception was raised
    summary,         \* the summaries add_summary_to_log has written in this call
    reports,         \* the counts send_email has been handed in this call
    inserted,        \* the names added to self.RESERVED_TYPES, in order
    incremented,     \* the counters the checkers have added to or assigned so far
    history,         \* one record for each call of run_analysis that has returned
    instance,        \* the number of analyzers constructed for the file
    run,             \* the number of calls of run_analysis
    faults,          \* the number of exceptions injected
    handlers,        \* logging.root.handlers of the server process: the log files
                     \* (named by their upload) and streams that get every message
    sinks,           \* for each of them, how many diagnostics of each upload it got
    up               \* the /upload requests in progress, each with its analyzer

vars ==
    <<file, ext, exists, RESERVED_TYPES, counts, error_count, log, pc, ran, faulted,
      summary, reports, inserted, incremented, history, instance, run, faults,
      handlers, sinks, up>>

\* the analyzer that is followed alone
analyzerVars ==
    <<file, ext, exists, RESERVED_TYPES, counts, error_count, log, pc, ran, faulted,
      summary, reports, inserted, incremented, history, instance, run, faults>>

\* the server process and its requests
uploadVars == <<handlers, sinks, up>>

\* a file of lines that end in "\n"
Text(texts) == [i \in 1..Len(texts) |-> RawLine(S(texts[i]), "LF")]

\* the same lines with another terminator after the last of them
EndingIn(f, eol) == [f EXCEPT ![Len(f)].eol = eol]

\* 85 characters: a comment of 81 asterisks
Banner == S("/*") \o [i \in 1..(ALLOWED_CHAR_COUNT - 4) |-> "*"] \o S("*/")

\* the files analysed
Files ==
    { <<>>,
      Text(<<"int x = 1;", "int x = 1;">>),
      Text(<<"int y", "= 5;">>),
      Text(<<"typedef struct { int a; } Widget;", "static Foo bar;", "extern Foo baz;",
             "return fn(Aaa a, Bbb b)", "#ifndef EEPROM_H">>),
      Text(<<"x = y+z;", "y = 0xFF;", "int *ptr;", "STATUS foo(int a)">>),
      Text(<<"UINT32 count;", "if (count <= 0)", "{", "} x;",
             "sysLog(\"v %d\", count);">>),
      EndingIn(Text(<<"// note", "a  b", "printf(\"addr %x %d\", a);">>), "NONE"),
      <<RawLine(S("x = 1; // one"), "CRLF"), RawLine(S("y = 2;"), "LF")>>,
      <<RawLine(Banner, "LF"), RawLine(Banner \o S(" "), "LF"), RawLine(Banner, "NONE")>>,
      Text(<<"}", "", "", "", "", "int main()">>) }

\* the files on which the rules are examined one by one
RuleFiles ==
    { Text(<<"x = 0xFF;", "x = 0xff;", "x = 0xaF;">>),
      Text(<<"if (x)", "{", "}">>),
      Text(<<"if (x) {", "}">>),
      Text(<<"UINT32 count;", "if (count <= 0)", "count = 1;">>),
      Text(<<"UINT32 count;", "UINT32 total;", "if (count <= 0 || total <= 0)">>),
      Text(<<"typedef struct { int a; } Widget;", "void f()", "{", "Widget w", "}">>),
      Text(<<"#include <a.h>", "typedef struct { int a; } Widget;", "void f()", "{",
             "Widget w", "}">>),
      <<RawLine(S("a = 1;"), "CRLF"), RawLine(S("b = 2;"), "LF"), RawLine(S("c = 3;"), "LF")>>,
      <<RawLine(S("a = 1;"), "CRLF"), RawLine(S("b = 2;"), "CRLF")>>,
      Text(<<"#include <a.h>", "/* Control Data */", "int g;", "void f()", "{", "int x",
             "}">>),
      Text(<<"/* note */", "x = y+z;">>),
      Text(<<"/* a", "b */", "x = y+z;">>),
      Text(<<"// a", "// b", "x = 1;", "// c">>),
      Text(<<"// a", "s = \"x//y\";", "// b">>),
      Text(<<"s = \"x//y\";", "x = 1;">>),
      Text(<<"else if (x) { y = 1; }">>),
      Text(<<"if (x) { y = 1; }">>),
      Text(<<"int x;", "if (x <= 0)", "x = 1;">>),
      Text(<<"int x;", "UINT32 count;", "if (x <= 0)">>),
      Text(<<"Ret fn(Aaa a, Bbb b)">>),
      Text(<<"Ret fn(Aaa a)">>),
      Text(<<"printf(\"address %d\", a);">>),
      Text(<<"printf(\"addr %x %d\", a, b);">>),
      Text(<<"printf(\"addr %lx\", a);">>),
      Text(<<"int *pfoo;", "int *pFoo;", "int *foo;", "x = y+z;">>),
      Text(<<"x = a+b + c;", "y = a+b-c;", "z = a + b;">>),
      Text(<<"if (x) {", "\ta = 1;", "    b = 2;", "}">>),
      Text(<<"if (x) {", "\ta = 1;", "\tb = 2;", "}">>),
      Text(<<"printf(\"addr %x %d\", a, b);", "x = 1;">>),
      Text(<<"}", "", "", "", "", "* - name: f">>),
      Text(<<"x = 1;", "", "", "", "", "}">>),
      Text(<<"}", "", "* - name: f", "", "}">>) }

\* Faulty variant for C7: the .c branch without the comment check
ScheduleWithoutComments(extension) ==
    IF extension = ".h"
    THEN <<"check_name_replace", "check_line_length_limit", "check_comments">>
    ELSE <<"extract_global_declarations", "check_line_length_limit",
           "check_brace_placement", "check_variable_declaration",
           "check_naming_conventions", "check_spacing_between_routines",
           "check_hex_values", "check_consistency",
           "check_excess_whitespace", "check_unsigned_variables",
           "check_operator_spacing", "check_unsigned_logic",
           "check_address_print_format">>

\* Faulty variant for C8: the line-length check is called before the discovery
ScheduleExtractingLate(extension) ==
    IF extension = ".h"
    THEN <<"check_name_replace", "check_line_length_limit", "check_comments">>
    ELSE <<"check_line_length_limit", "extract_global_declarations",
           "check_brace_placement", "check_variable_declaration",
           "check_naming_conventions", "check_spacing_between_routines",
           "check_hex_values", "check_comments", "check_consistency",
           "check_excess_whitespace", "check_unsigned_variables",
           "check_operator_spacing", "check_unsigned_logic",
           "check_address_print_format">>

\* the checkers run_analysis calls for a header and for a source file, in order
Schedule(extension) ==
    IF extension = ".h"
    THEN <<"check_name_replace", "check_line_length_limit", "check_comments">>
    ELSE IF extension = ".c"
    THEN <<"extract_global_declarations", "check_line_length_limit",
           "check_brace_placement", "check_variable_declaration",
           "check_naming_conventions", "check_spacing_between_routines",
           "check_hex_values", "check_comments", "check_consistency",
           "check_excess_whitespace", "check_unsigned_variables",
           "check_operator_spacing", "check_unsigned_logic",
           "check_address_print_format">>
    ELSE <<>>

\* the checkers that read the file line by line while they check it; the others
\* read it whole (readlines) before they look at a line
IterBased ==
    {"check_name_replace", "check_comments", "check_spacing_between_routines",
     "check_address_print_format", "check_variable_initialization"}

\* the counters of self.counts that each checker increments or assigns
Counters ==
    [checker \in Range(Schedule(".h")) \cup Range(Schedule(".c"))
                 \cup {"check_include_directive", "check_variable_initialization"} |->
        CASE checker = "extract_global_declarations" -> {}
          [] checker = "check_include_directive" -> {"include_directive_check"}
          [] checker = "check_name_replace" -> {"replace_name_check"}
          [] checker = "check_line_length_limit" -> {"line_length_limit_check"}
          [] checker = "check_variable_declaration" -> {"variable_declarations_check"}
          [] checker = "check_variable_initialization" -> {"variable_initialization_check"}
          [] checker = "check_spacing_between_routines" -> {"spacing_between_routines_check"}
          [] checker = "check_brace_placement" -> {"brace_placement_check"}
          [] checker = "check_naming_conventions" -> {"naming_conventions_check"}
          [] checker = "check_operator_spacing" ->
                 {"operator_spacing_check", "pointer_naming_check"}
          [] checker = "check_hex_values" -> {"hex_value_check"}
          [] checker = "check_comments" -> {"comment_check"}
          [] checker = "check_consistency" -> {"consistency_check"}
          [] checker = "check_excess_whitespace" -> {"excess_whitespace_check"}
          [] checker = "check_unsigned_logic" -> {"unsigned_logic_check"}
          [] checker = "check_unsigned_variables" -> {"unsigned_print_check"}
          [] checker = "check_address_print_format" -> {"address_print_check"}]

\* where a call of the checker on the lines f can meet an exception: at a line
\* it is reading, or before it has looked at any
FaultPoints(checker, f) ==
    IF checker \in IterBased THEN 0..Min2(MaxFaultLine, Len(f)) ELSE {0}

\* the exceptions a call of the checker can meet
FaultsOf(checker) ==
    IF exists /\ faults < MaxFaults
    THEN {NoFault} \cup FaultPoints(checker, file)
    ELSE {NoFault}

\* Faulty variant for C3: an exception reported by a checker empties the counters
ApplyResetting(c, eff) ==
    IF eff.raised \/ \E k \in 1..Len(eff.log) : eff.log[k].kind = "error"
    THEN [r \in DOMAIN c |-> 0]
    ELSE [r \in DOMAIN c |->
             IF r \in DOMAIN eff.set THEN eff.set[r]
             ELSE IF r \in DOMAIN eff.add THEN c[r] + eff.add[r]
             ELSE c[r]]

\* self.counts after the increments and assignments of a checker
Apply(c, eff) ==
    [r \in DOMAIN c |->
        IF r \in DOMAIN eff.set THEN eff.set[r]
        ELSE IF r \in DOMAIN eff.add THEN c[r] + eff.add[r]
        ELSE c[r]]

\* the counters an executed `+=` of the call has added to, or an executed `=`
\* has assigned
Written(eff) == {r \in DOMAIN eff.add : eff.add[r] > 0} \cup DOMAIN eff.set

\* whether an exception was raised in the call
Failed(eff) == eff.raised \/ \E k \in 1..Len(eff.log) : eff.log[k].kind = "error"

\* Faulty variant for C5: what a checker raises ends the checks
AfterRuleAborting(n, raised) ==
    IF raised \/ n = Len(Schedule(ext)) THEN "summary" ELSE "rules"

\* where run_analysis goes on after the n-th checker of the schedule: its handler
\* `except Exception` logs what a checker raises and the next try block follows
AfterRule(n, raised) == IF n = Len(Schedule(ext)) THEN "summary" ELSE "rules"

\* what a checker is called on: the lines at script_path and whether open() finds
\* the file
Inputs == {<<f, TRUE>> : f \in Files \cup RuleFiles} \cup {<<<<>>, FALSE>>}

\* what self.RESERVED_TYPES can hold when a checker is called on the lines f: the
\* built-in list, with the names a discovery on f has added
ReservedSets(f) ==
    {Range(RESERVED_TYPES_LIST)} \cup
    {Range(RESERVED_TYPES_LIST) \cup
         Range(extract_global_declarations(f, TRUE, fault,
                                           Range(RESERVED_TYPES_LIST)).added) :
       fault \in {NoFault} \cup FaultPoints("extract_global_declarations", f)}

(***************************************************************************)
(* A checker reads the file and, for two of them, self.RESERVED_TYPES, and *)
(* nothing else of the analyzer: its call is a function of them and of the *)
(* exception it meets.  The calls of each checker on the files analysed:   *)
(***************************************************************************)

GlobalDeclarationsCalls ==
    [in \in Inputs |->
        [reserved \in ReservedSets(in[1]) |->
            [fault \in {NoFault} \cup FaultPoints("extract_global_declarations", in[1]) |->
                extract_global_declarations(in[1], in[2], fault, reserved)]]]

NameReplaceCalls ==
    [in \in Inputs |->
        [fault \in {NoFault} \cup FaultPoints("check_name_replace", in[1]) |->
            check_name_replace(in[1], in[2], fault)]]

LineLengthLimitCalls ==
    [in \in Inputs |->
        [fault \in {NoFault} \cup FaultPoints("check_line_length_limit", in[1]) |->
            check_line_length_limit(in[1], in[2], fault)]]

BracePlacementCalls ==
    [in \in Inputs |->
        [fault \in {NoFault} \cup FaultPoints("check_brace_placement", in[1]) |->
            check_brace_placement(in[1], in[2], fault)]]

VariableDeclarationCalls ==
    [in \in Inputs |->
        [reserved \in ReservedSets(in[1]) |->
            [fault \in {NoFault} \cup FaultPoints("check_variable_declaration", in[1]) |->
                check_variable_declaration(in[1], in[2], fault, reserved)]]]

NamingConventionsCalls ==
    [in \in Inputs |->
        [fault \in {NoFault} \cup FaultPoints("check_naming_conventions", in[1]) |->
            check_naming_conventions(in[1], in[2], fault)]]

SpacingBetweenRoutinesCalls ==
    [in \in Inputs |->
        [fault \in {NoFault} \cup FaultPoints("check_spacing_between_routines", in[1]) |->
            check_spacing_between_routines(in[1], in[2], fault)]]

HexValuesCalls ==
    [in \in Inputs |->
        [fault \in {NoFault} \cup FaultPoints("check_hex_values", in[1]) |->
            check_hex_values(in[1], in[2], fault)]]

CommentsCalls ==
    [in \in Inputs |->
        [fault \in {NoFault} \cup FaultPoints("check_comments", in[1]) |->
            check_comments(in[1], in[2], fault)]]

ConsistencyCalls ==
    [in \in Inputs |->
        [fault \in {NoFault} \cup FaultPoints("check_consistency", in[1]) |->
            check_consistency(in[1], in[2], fault)]]

ExcessWhitespaceCalls ==
    [in \in Inputs |->
        [fault \in {NoFault} \cup FaultPoints("check_excess_whitespace", in[1]) |->
            check_excess_whitespace(in[1], in[2], fault)]]

UnsignedVariablesCalls ==
    [in \in Inputs |->
        [fault \in {NoFault} \cup FaultPoints("check_unsigned_variables", in[1]) |->
            check_unsigned_variables(in[1], in[2], fault)]]

OperatorSpacingCalls ==
    [in \in Inputs |->
        [fault \in {NoFault} \cup FaultPoints("check_operator_spacing", in[1]) |->
            check_operator_spacing(in[1], in[2], fault)]]

UnsignedLogicCalls ==
    [in \in Inputs |->
        [fault \in {NoFault} \cup FaultPoints("check_unsigned_logic", in[1]) |->
            check_unsigned_logic(in[1], in[2], fault)]]

AddressPrintFormatCalls ==
    [in \in Inputs |->
        [fault \in {NoFault} \cup FaultPoints("check_address_print_format", in[1]) |->
            check_address_print_format(in[1], in[2], fault)]]

\* the call of a checker of the schedules on the file at script_path
OutcomeOn(checker, in, fault, reserved) ==
    CASE checker = "extract_global_declarations" ->
             GlobalDeclarationsCalls[in][reserved][fault]
      [] checker = "check_name_replace" ->
             NameReplaceCalls[in][fault]
      [] checker = "check_line_length_limit" ->
             LineLengthLimitCalls[in][fault]
      [] checker = "check_brace_placement" ->
             BracePlacementCalls[in][fault]
      [] checker = "check_variable_declaration" ->
             VariableDeclarationCalls[in][reserved][fault]
      [] checker = "check_naming_conventions" ->
             NamingConventionsCalls[in][fault]
      [] checker = "check_spacing_between_routines" ->
             SpacingBetweenRoutinesCalls[in][fault]
      [] checker = "check_hex_values" ->
             HexValuesCalls[in][fault]
      [] checker = "check_comments" ->
             CommentsCalls[in][fault]
      [] checker = "check_consistency" ->
             ConsistencyCalls[in][fault]
      [] checker = "check_excess_whitespace" ->
             ExcessWhitespaceCalls[in][fault]
      [] checker = "check_unsigned_variables" ->
             UnsignedVariablesCalls[in][fault]
      [] checker = "check_operator_spacing" ->
             OperatorSpacingCalls[in][fault]
      [] checker = "check_unsigned_logic" ->
             UnsignedLogicCalls[in][fault]
      [] checker = "check_address_print_format" ->
             AddressPrintFormatCalls[in][fault]

\* the same for the file the analyzer followed alone is working on
OutcomeOf(checker, fault, reserved) ==
    OutcomeOn(checker, <<file, exists>>, fault, reserved)

\* the /upload requests that the server handles, each in a thread of its own
Requests == {1, 2}

\* the stream sys.stderr, which is no upload's log file
Stderr == 0

\* a request that has not reached ScriptAnalyzer(...): the analyzer it will
\* construct, the checkers it has called, the diagnostics its run has logged and
\* what send_email has read from its log file
NoRequest ==
    [pc |-> "idle", file |-> <<>>, ext |-> ".c", counts |-> InitialCounts,
     RESERVED_TYPES |-> Range(RESERVED_TYPES_LIST), ran |-> 0, diagnostics |-> 0,
     attached |-> [q \in Requests |-> 0]]

\* the server process before any request: logging has no handler yet
NoUploads ==
    /\ handlers = {}
    /\ sinks = [k \in Requests \cup {Stderr} |-> [q \in Requests |-> 0]]
    /\ up = [r \in Requests |-> NoRequest]

\* the messages that report style violations
Diagnostics(l) == SelectSeq(l, LAMBDA m : m.kind \in {"violation", "detail"})

Init ==
    /\ ext \in {".c", ".h"}
    /\ exists \in BOOLEAN
    /\ file \in IF exists THEN Files ELSE {<<>>}
    /\ RESERVED_TYPES = Range(RESERVED_TYPES_LIST)
    /\ counts = InitialCounts
    /\ error_count = 0
    /\ log = <<>>
    /\ pc = "idle"
    /\ ran = <<>>
    /\ faulted = {}
    /\ summary = <<>>
    /\ reports = <<>>
    /\ inserted = <<>>
    /\ incremented = {}
    /\ history = <<>>
    /\ instance = 1
    /\ run = 0
    /\ faults = 0
    /\ NoUploads

\* an analyzer constructed for one of the files of RuleFiles
RuleInit ==
    /\ ext \in {".c", ".h"}
    /\ exists = TRUE
    /\ file \in RuleFiles
    /\ RESERVED_TYPES = Range(RESERVED_TYPES_LIST)
    /\ counts = InitialCounts
    /\ error_count = 0
    /\ log = <<>>
    /\ pc = "idle"
    /\ ran = <<>>
    /\ faulted = {}
    /\ summary = <<>>
    /\ reports = <<>>
    /\ inserted = <<>>
    /\ incremented = {}
    /\ history = <<>>
    /\ instance = 1
    /\ run = 0
    /\ faults = 0
    /\ NoUploads

\* the entry of run_analysis, up to the test of the extension
StartRun ==
    /\ pc \in {"idle", "done"}
    /\ run < MaxRuns
    /\ run' = run + 1
    /\ pc' = IF Schedule(ext) = <<>> THEN "summary" ELSE "rules"
    /\ log' = <<Info("run_analysis")>>
    /\ ran' = <<>>
    /\ faulted' = {}
    /\ summary' = <<>>
    /\ reports' = <<>>
    /\ UNCHANGED uploadVars
    /\ UNCHANGED <<file, ext, exists, RESERVED_TYPES, counts, error_count, inserted,
                   incremented, history, instance, faults>>

\* ScriptAnalyzer(...) for another upload of the same file
NewAnalyzer ==
    /\ pc = "done"
    /\ run < MaxRuns
    /\ instance' = instance + 1
    /\ RESERVED_TYPES' = Range(RESERVED_TYPES_LIST)
    /\ counts' = InitialCounts
    /\ error_count' = 0
    /\ log' = <<>>
    /\ pc' = "idle"
    /\ ran' = <<>>
    /\ faulted' = {}
    /\ summary' = <<>>
    /\ reports' = <<>>
    /\ inserted' = <<>>
    /\ incremented' = {}
    /\ UNCHANGED uploadVars
    /\ UNCHANGED <<file, ext, exists, history, run, faults>>

\* one try block of run_analysis: the call of the checker that is next in the
\* schedule, with the exception `fault`, and the handler of what it raises
Step(checker, eff, fault) ==
    /\ pc = "rules"
    /\ Len(ran) < Len(Schedule(ext))
    /\ Schedule(ext)[Len(ran) + 1] = checker
    /\ counts' = Apply(counts, eff)
    /\ log' = log \o eff.log \o (IF eff.raised THEN <<ErrorMsg("run_analysis")>> ELSE <<>>)
    /\ ran' = Append(ran, checker)
    /\ faulted' = IF Failed(eff) THEN faulted \cup {checker} ELSE faulted
    /\ incremented' = incremented \cup Written(eff)
    /\ faults' = IF fault = NoFault THEN faults ELSE faults + 1
    /\ pc' = AfterRule(Len(ran) + 1, eff.raised)
    /\ UNCHANGED uploadVars
    /\ UNCHANGED <<file, ext, exists, error_count, summary, reports, history, instance,
                   run>>

ExtractGlobalDeclarations ==
    \E fault \in FaultsOf("extract_global_declarations") :
        LET found ==
                GlobalDeclarationsCalls[<<file, exists>>][RESERVED_TYPES][fault]
        IN  /\ Step("extract_global_declarations",
                    Effect(found.log, NoCounts, NoCounts, FALSE), fault)
            /\ RESERVED_TYPES' = RESERVED_TYPES \cup Range(found.added)
            /\ inserted' = inserted \o found.added

CheckNameReplace ==
    \E fault \in FaultsOf("check_name_replace") :
        /\ Step("check_name_replace", NameReplaceCalls[<<file, exists>>][fault], fault)
        /\ UNCHANGED <<RESERVED_TYPES, inserted>>

CheckLineLengthLimit ==
    \E fault \in FaultsOf("check_line_length_limit") :
        /\ Step("check_line_length_limit",
                LineLengthLimitCalls[<<file, exists>>][fault], fault)
        /\ UNCHANGED <<RESERVED_TYPES, inserted>>

CheckBracePlacement ==
    \E fault \in FaultsOf("check_brace_placement") :
        /\ Step("check_brace_placement",
                BracePlacementCalls[<<file, exists>>][fault], fault)
        /\ UNCHANGED <<RESERVED_TYPES, inserted>>

CheckVariableDeclaration ==
    \E fault \in FaultsOf("check_variable_declaration") :
        /\ Step("check_variable_declaration",
                VariableDeclarationCalls[<<file, exists>>][RESERVED_TYPES][fault], fault)
        /\ UNCHANGED <<RESERVED_TYPES, inserted>>

CheckNamingConventions ==
    \E fault \in FaultsOf("check_naming_conventions") :
        /\ Step("check_naming_conventions",
                NamingConventionsCalls[<<file, exists>>][fault], fault)
        /\ UNCHANGED <<RESERVED_TYPES, inserted>>

CheckSpacingBetweenRoutines ==
    \E fault \in FaultsOf("check_spacing_between_routines") :
        /\ Step("check_spacing_between_routines",
                SpacingBetweenRoutinesCalls[<<file, exists>>][fault], fault)
        /\ UNCHANGED <<RESERVED_TYPES, inserted>>

CheckHexValues ==
    \E fault \in FaultsOf("check_hex_values") :
        /\ Step("check_hex_values", HexValuesCalls[<<file, exists>>][fault], fault)
        /\ UNCHANGED <<RESERVED_TYPES, inserted>>

CheckComments ==
    \E fault \in FaultsOf("check_comments") :
        /\ Step("check_comments", CommentsCalls[<<file, exists>>][fault], fault)
        /\ UNCHANGED <<RESERVED_TYPES, inserted>>

CheckConsistency ==
    \E fault \in FaultsOf("check_consistency") :
        /\ Step("check_consistency", ConsistencyCalls[<<file, exists>>][fault], fault)
        /\ UNCHANGED <<RESERVED_TYPES, inserted>>

CheckExcessWhitespace ==
    \E fault \in FaultsOf("check_excess_whitespace") :
        /\ Step("check_excess_whitespace",
                ExcessWhitespaceCalls[<<file, exists>>][fault], fault)
        /\ UNCHANGED <<RESERVED_TYPES, inserted>>

CheckUnsignedVariables ==
    \E fault \in FaultsOf("check_unsigned_variables") :
        /\ Step("check_unsigned_variables",
                UnsignedVariablesCalls[<<file, exists>>][fault], fault)
        /\ UNCHANGED <<RESERVED_TYPES, inserted>>

CheckOperatorSpacing ==
    \E fault \in FaultsOf("check_operator_spacing") :
        /\ Step("check_operator_spacing",
                OperatorSpacingCalls[<<file, exists>>][fault], fault)
        /\ UNCHANGED <<RESERVED_TYPES, inserted>>

CheckUnsignedLogic ==
    \E fault \in FaultsOf("check_unsigned_logic") :
        /\ Step("check_unsigned_logic",
                UnsignedLogicCalls[<<file, exists>>][fault], fault)
        /\ UNCHANGED <<RESERVED_TYPES, inserted>>

CheckAddressPrintFormat ==
    \E fault \in FaultsOf("check_address_print_format") :
        /\ Step("check_address_print_format",
                AddressPrintFormatCalls[<<file, exists>>][fault], fault)
        /\ UNCHANGED <<RESERVED_TYPES, inserted>>

\* the keys of self.counts in the order in which __init__ inserts them, which is
\* the order self.counts.items() yields them in
CountKeyOrder ==
    <<"line_length_limit_check", "excess_whitespace_check", "operator_spacing_check",
      "pointer_naming_check", "address_print_check", "unsigned_print_check",
      "comment_check", "hex_value_check", "variable_declarations_check",
      "naming_conventions_check", "unsigned_logic_check", "replace_name_check",
      "spacing_between_routines_check", "brace_placement_check", "consistency_check">>

\* a row of the summary table
SummaryRow(check, count) == [check |-> check, count |-> count]

\* the rows of `for check, count in self.counts.items()` from the k-th key on:
\* the counters that are at least 1
RECURSIVE RowsFrom(_, _)
RowsFrom(c, k) ==
    IF k > Len(CountKeyOrder) THEN <<>>
    ELSE (IF CountKeyOrder[k] \in DOMAIN c /\ c[CountKeyOrder[k]] >= 1
          THEN <<SummaryRow(CountKeyOrder[k], c[CountKeyOrder[k]])>> ELSE <<>>)
         \o RowsFrom(c, k + 1)

\* Faulty variant for C30: the rows in the reverse of the order of the keys
SummaryRowsReversed(c) ==
    LET rows == RowsFrom(c, 1) IN [k \in 1..Len(rows) |-> rows[Len(rows) + 1 - k]]

\* the rows add_summary_to_log writes
SummaryRows(c) == RowsFrom(c, 1)

\* the text add_summary_to_log appends to the log file: the table with its rows
\* when a counter is above 0, the line "No Issues observed ..." when no row was
\* written
add_summary_to_log(c) ==
    LET value == \E check \in DOMAIN c : c[check] > 0
        rows == IF value THEN SummaryRows(c) ELSE <<>>
    IN  [table |-> value, rows |-> rows, no_issues |-> rows = <<>>]

\* the message "... Completed." and add_summary_to_log
AddSummaryToLog ==
    /\ pc = "summary"
    /\ log' = Append(log, Info("run_analysis"))
    /\ summary' = Append(summary, add_summary_to_log(counts))
    /\ pc' = "email"
    /\ UNCHANGED uploadVars
    /\ UNCHANGED <<file, ext, exists, RESERVED_TYPES, counts, error_count, ran, faulted,
                   reports, inserted, incremented, history, instance, run, faults>>

\* the record of a call of run_analysis that has returned
Returned(l, handed) ==
    [instance |-> instance, counts |-> counts, diagnostics |-> Diagnostics(l),
     faulted |-> faulted, missing |-> ~exists, reports |-> handed]

\* send_email(..., self.counts, ...), which delivers the report or raises; what
\* it raises is caught by the outer handler of run_analysis
SendEmail ==
    \E delivered \in BOOLEAN :
        /\ pc = "email"
        /\ reports' = Append(reports, counts)
        /\ error_count' = IF delivered THEN error_count ELSE error_count + 1
        /\ log' = IF delivered THEN log
                  ELSE log \o <<ErrorMsg("run_analysis"), ErrorMsg("run_analysis")>>
        /\ history' = Append(history, Returned(log, Append(reports, counts)))
        /\ pc' = "done"
        /\ UNCHANGED uploadVars
        /\ UNCHANGED <<file, ext, exists, RESERVED_TYPES, counts, ran, faulted, summary,
                       inserted, incremented, instance, run, faults>>

\* a call of one of the two checkers that run_analysis does not call, on an
\* analyzer that has not been used
Direct(eff) ==
    /\ pc = "idle"
    /\ counts' = Apply(counts, eff)
    /\ log' = log \o eff.log
    /\ incremented' = incremented \cup Written(eff)
    /\ pc' = "direct"
    /\ UNCHANGED uploadVars
    /\ UNCHANGED <<file, ext, exists, RESERVED_TYPES, error_count, ran, faulted, summary,
                   reports, inserted, history, instance, run, faults>>

CheckIncludeDirective ==
    Direct(check_include_directive(file, exists, NoFault, DOMAIN counts))

CheckVariableInitialization ==
    Direct(check_variable_initialization(file, exists, NoFault, DOMAIN counts))

Next ==
    \/ StartRun
    \/ NewAnalyzer
    \/ ExtractGlobalDeclarations
    \/ CheckNameReplace
    \/ CheckLineLengthLimit
    \/ CheckBracePlacement
    \/ CheckVariableDeclaration
    \/ CheckNamingConventions
    \/ CheckSpacingBetweenRoutines
    \/ CheckHexValues
    \/ CheckComments
    \/ CheckConsistency
    \/ CheckExcessWhitespace
    \/ CheckUnsignedVariables
    \/ CheckOperatorSpacing
    \/ CheckUnsignedLogic
    \/ CheckAddressPrintFormat
    \/ AddSummaryToLog
    \/ SendEmail
    \/ CheckIncludeDirective
    \/ CheckVariableInitialization

Spec == Init /\ [][Next]_vars

\* the same analyzer on the files of RuleFiles
RuleSpec == RuleInit /\ [][Next]_vars

(***************************************************************************)
(* Concurrent /upload requests                                             *)
(*                                                                         *)
(* upload_file of app.py constructs a ScriptAnalyzer for the uploaded     *)
(* file, calls run_analysis and then removes the handlers of the root      *)
(* logger.  The requests are served by threads of one process: each has   *)
(* its own analyzer, and all of them log through the logging module's      *)
(* root logger.  A step of a request is a call that logs: the checkers     *)
(* are called without injected exceptions.                                 *)
(***************************************************************************)

\* the files uploaded
UploadFiles ==
    { Text(<<"typedef struct { int a; } Widget;", "void f()", "{", "Widget w", "}">>),
      Text(<<"// a", "// b", "x = 1;", "// c">>) }

\* two requests for different files are about to be served
UploadInit ==
    /\ ext = ".c"
    /\ exists = FALSE
    /\ file = <<>>
    /\ RESERVED_TYPES = Range(RESERVED_TYPES_LIST)
    /\ counts = InitialCounts
    /\ error_count = 0
    /\ log = <<>>
    /\ pc = "idle"
    /\ ran = <<>>
    /\ faulted = {}
    /\ summary = <<>>
    /\ reports = <<>>
    /\ inserted = <<>>
    /\ incremented = {}
    /\ history = <<>>
    /\ instance = 1
    /\ run = 0
    /\ faults = 0
    /\ handlers = {}
    /\ sinks = [k \in Requests \cup {Stderr} |-> [q \in Requests |-> 0]]
    /\ up \in {u \in [Requests -> {[NoRequest EXCEPT !.file = f, !.ext = e] :
                                      f \in UploadFiles, e \in {".c", ".h"}}] :
                  u[1].file # u[2].file}

\* the handlers that get a message logged with logging.info or logging.error:
\* when the root logger has none, the call first gives it one for sys.stderr
HandlersAtEmit(h) == IF h = {} THEN {Stderr} ELSE h

\* the log files and streams after request r has logged d diagnostics
Emitted(s, h, r, d) ==
    [k \in DOMAIN s |-> IF k \in HandlersAtEmit(h) THEN [s[k] EXCEPT ![r] = @ + d]
                        ELSE s[k]]

\* ScriptAnalyzer(...) in upload_file: logging.basicConfig(filename=self.log_file)
\* gives the root logger a handler for the analyzer's log file, unless the root
\* logger has a handler already
Construct(r) ==
    /\ up[r].pc = "idle"
    /\ handlers' = IF handlers = {} THEN {r} ELSE handlers
    /\ up' = [up EXCEPT ![r].pc = "constructed"]
    /\ UNCHANGED sinks
    /\ UNCHANGED analyzerVars

\* the entry of run_analysis: the message "Starting Script Analysis ..."
UploadStartRun(r) ==
    /\ up[r].pc = "constructed"
    /\ handlers' = HandlersAtEmit(handlers)
    /\ up' = [up EXCEPT ![r].pc = "rules"]
    /\ UNCHANGED sinks
    /\ UNCHANGED analyzerVars

\* the effect on the counters and the log of what a checker or the discovery
\* has returned
EffectOf(found) ==
    IF "added" \in DOMAIN found THEN Effect(found.log, NoCounts, NoCounts, FALSE)
    ELSE found

\* the names the discovery has added, none for a checker
AddedBy(found) == IF "added" \in DOMAIN found THEN Range(found.added) ELSE {}

\* one try block of run_analysis in request r
UploadRule(r) ==
    /\ up[r].pc = "rules"
    /\ \E found \in {OutcomeOn(Schedule(up[r].ext)[up[r].ran + 1], <<up[r].file, TRUE>>,
                               NoFault, up[r].RESERVED_TYPES)} :
           /\ up' = [up EXCEPT
                        ![r].counts = Apply(@, EffectOf(found)),
                        ![r].RESERVED_TYPES = @ \cup AddedBy(found),
                        ![r].ran = @ + 1,
                        ![r].diagnostics = @ + Violations(found.log),
                        ![r].pc = IF up[r].ran + 1 = Len(Schedule(up[r].ext))
                                  THEN "summary" ELSE "rules"]
           /\ sinks' = Emitted(sinks, handlers, r, Violations(found.log))
    /\ handlers' = HandlersAtEmit(handlers)
    /\ UNCHANGED analyzerVars

\* the message "... Completed." and add_summary_to_log, which appends the
\* summary to the analyzer's own log file
UploadSummary(r) ==
    /\ up[r].pc = "summary"
    /\ handlers' = HandlersAtEmit(handlers)
    /\ up' = [up EXCEPT ![r].pc = "email"]
    /\ UNCHANGED sinks
    /\ UNCHANGED analyzerVars

\* send_email reads the analyzer's own log file as the attachment
UploadSendEmail(r) ==
    /\ up[r].pc = "email"
    /\ up' = [up EXCEPT ![r].pc = "sent", ![r].attached = sinks[r]]
    /\ UNCHANGED <<handlers, sinks>>
    /\ UNCHANGED analyzerVars

\* upload_file after run_analysis: every handler of the root logger is removed
RemoveHandlers(r) ==
    /\ up[r].pc = "sent"
    /\ handlers' = {}
    /\ up' = [up EXCEPT ![r].pc = "done"]
    /\ UNCHANGED sinks
    /\ UNCHANGED analyzerVars

UploadNext ==
    \E r \in Requests :
        \/ Construct(r)
        \/ UploadStartRun(r)
        \/ UploadRule(r)
        \/ UploadSummary(r)
        \/ UploadSendEmail(r)
        \/ RemoveHandlers(r)

UploadSpec == UploadInit /\ [][UploadNext]_vars

(***************************************************************************)
(* Properties of run_analysis                                              *)
(***************************************************************************)

\* the number of violation messages of rule r in a list of log entries
ViolationsOf(l, r) ==
    Cardinality({k \in 1..Len(l) : l[k].kind = "violation" /\ l[k].rule = r})

\* sum(c.values()) over the keys of a set
RECURSIVE SumOver(_, _)
SumOver(c, keys) ==
    IF keys = {} THEN 0
    ELSE LET r == CHOOSE q \in keys : TRUE
         IN  c[r] + SumOver(c, keys \ {r})

\* the current call of run_analysis has returned, and it was the first call on
\* this analyzer: its counters started from 0
FirstRunReturned ==
    /\ pc = "done"
    /\ Cardinality({k \in 1..Len(history) : history[k].instance = instance}) = 1

\* the error messages of the checkers (those of run_analysis itself apart)
CheckerErrors(l) ==
    Cardinality({k \in 1..Len(l) : l[k].kind = "error" /\ l[k].rule # "run_analysis"})

\* self.counts after the checkers k, k+1, ... of the schedule when no exception is
\* injected into any of them
RECURSIVE UndisturbedFrom(_, _, _)
UndisturbedFrom(k, c, reserved) ==
    IF k > Len(Schedule(ext)) THEN c
    ELSE IF Schedule(ext)[k] = "extract_global_declarations"
    THEN UndisturbedFrom(k + 1, c,
             reserved \cup Range(OutcomeOf("extract_global_declarations", NoFault,
                                            reserved).added))
    ELSE UndisturbedFrom(k + 1,
                         Apply(c, OutcomeOf(Schedule(ext)[k], NoFault, reserved)),
                         reserved)

UndisturbedCounts == UndisturbedFrom(1, InitialCounts, Range(RESERVED_TYPES_LIST))

\* the counters written by the checkers of a set
CountersOfAll(checkers) == UNION {Counters[c] : c \in checkers}

\* C1: after a first run_analysis on an existing file in which no checker raised,
\* every counter equals the number of violation messages logged for its rule, and
\* the counters add up to the number of violation messages of the run
C1_CountsEqualMessages ==
    (FirstRunReturned /\ exists /\ faulted = {}) =>
        /\ \A r \in DOMAIN counts : counts[r] = ViolationsOf(log, r)
        /\ SumOver(counts, DOMAIN counts) = Violations(log)

\* C2: with no exception injected, any two calls of run_analysis on the file that
\* have returned (on the same analyzer or on a new one) left the same counters and
\* logged the same diagnostics in the same order
C2_RunsIdentical ==
    faults = 0 =>
        \A i, j \in 1..Len(history) :
            /\ history[i].counts = history[j].counts
            /\ history[i].diagnostics = history[j].diagnostics

\* C3: when rule checkers raised in a first run on an existing file, every checker of
\* the schedule was still called, and each counter that belongs to a checker that
\* did not raise has the value it has in the run where nothing is injected
C3_FaultIsolation ==
    (FirstRunReturned /\ exists /\ faulted # {}
        /\ "extract_global_declarations" \notin faulted) =>
        /\ ran = Schedule(ext)
        /\ LET undisturbed == UndisturbedCounts
           IN  \A r \in DOMAIN counts \ CountersOfAll(faulted) :
                   counts[r] = undisturbed[r]

\* a run in which check_brace_placement raised into run_analysis, and the hex
\* check scheduled after it counted a violation
C3_Witness ==
    /\ FirstRunReturned /\ exists
    /\ faulted = {"check_brace_placement"}
    /\ counts["hex_value_check"] > 0

\* C4: when the file does not exist, a returned run_analysis has logged exactly one
\* file-access error, has written no summary and has handed nothing to send_email
C4_MissingFileSingleError ==
    (~exists /\ pc = "done") =>
        /\ CheckerErrors(log) = 1
        /\ summary = <<>>
        /\ reports = <<>>

\* C5: for an existing file the summary is written at most once in a call, only
\* when every checker of the schedule has been called, exactly once when the call
\* has returned, and send_email is handed the counters once, after the summary
C5_SummaryOnceThenEmail ==
    exists =>
        /\ Len(summary) <= 1
        /\ (summary # <<>> => ran = Schedule(ext))
        /\ (pc \in {"email", "done"} => Len(summary) = 1)
        /\ (pc \in {"rules", "summary"} => summary = <<>> /\ reports = <<>>)
        /\ (reports # <<>> => Len(summary) = 1 /\ reports = <<counts>>)
        /\ (pc = "done" => Len(reports) = 1)

\* a returned run on an existing file in which a checker raised: one summary, one
\* report
C5_Witness ==
    /\ pc = "done" /\ exists /\ faulted # {}
    /\ Len(summary) = 1 /\ Len(reports) = 1

\* C6: every counter that a checker has added to or assigned is a key of
\* self.counts, which __init__ made with the value 0, and a key of every mapping
\* handed to send_email
C6_IncrementedAreKeys ==
    /\ incremented \subseteq DOMAIN counts
    /\ incremented \subseteq DOMAIN InitialCounts
    /\ \A k \in 1..Len(reports) : incremented \subseteq DOMAIN reports[k]

\* C7 as stated: every checker called for a .h file is one of those called for a
\* .c file, and a returned run on a .c file has called a checker for every counter
C7_HeaderSubsetFullSet ==
    /\ (ext = ".h" => Range(ran) \subseteq Range(Schedule(".c")))
    /\ ((ext = ".c" /\ pc = "done") =>
           DOMAIN counts \subseteq CountersOfAll(Range(ran)))

\* C7 amended: every checker called for a .h file other than check_name_replace is
\* one of those called for a .c file, and a returned run on a .c file has called a
\* checker for every counter except replace_name_check, which no checker of a .c
\* run writes to
C7_HeaderSubsetButNameReplace ==
    /\ (ext = ".h" =>
           Range(ran) \ {"check_name_replace"} \subseteq Range(Schedule(".c")))
    /\ ((ext = ".h" /\ pc = "done") => "check_name_replace" \in Range(ran))
    /\ ((ext = ".c" /\ pc = "done") =>
           CountersOfAll(Range(ran)) = DOMAIN counts \ {"replace_name_check"})

\* a returned run on a .c file that has called every checker of its schedule
C7_Witness ==
    /\ ext = ".c" /\ pc = "done" /\ exists
    /\ Len(ran) = Len(Schedule(".c"))
    /\ "replace_name_check" \notin CountersOfAll(Range(ran))

\* C8: in a run on a .c file extract_global_declarations is the first call, and
\* self.RESERVED_TYPES of an analyzer changes in that call only: not once a rule
\* checker has been called
C8_InsertionsBeforeRules ==
    /\ []((ext = ".c" /\ ran # <<>>) => ran[1] = "extract_global_declarations")
    /\ [][(instance' = instance /\ RESERVED_TYPES' # RESERVED_TYPES) =>
             (ext = ".c" /\ ran = <<>> /\ ran' = <<"extract_global_declarations">>)]_vars

\* discovery has inserted names and rule checkers have been called after it
C8_Witness ==
    /\ ext = ".c" /\ inserted # <<>>
    /\ Len(ran) > 1
    /\ RESERVED_TYPES # Range(RESERVED_TYPES_LIST)

\* C9: self.RESERVED_TYPES always contains the built-in list and never loses an
\* element while the analyzer lives; and every name inserted was not a known
\* keyword, not in the built-in list and not inserted before
C9_ReservedTypesGrow ==
    /\ [](Range(RESERVED_TYPES_LIST) \subseteq RESERVED_TYPES)
    /\ [](\A k \in 1..Len(inserted) :
             /\ inserted[k] \notin KNOWN_KEYWORDS
             /\ inserted[k] \notin Range(RESERVED_TYPES_LIST)
             /\ \A j \in 1..(k - 1) : inserted[j] # inserted[k])
    /\ [](RESERVED_TYPES = Range(RESERVED_TYPES_LIST) \cup Range(inserted))
    /\ [][instance' = instance => RESERVED_TYPES \subseteq RESERVED_TYPES']_vars

\* a returned run whose discovery inserted several names, on a file that also
\* offers a keyword and a name twice
C9_Witness ==
    /\ pc = "done" /\ Len(inserted) >= 3
    /\ \E n \in 1..Len(file) : StartsWith(file[n].text, S("return "))

\* C10: once check_line_length_limit has gone through an existing file, it has
\* logged one violation for each line whose text (without its terminator) is longer
\* than 85 characters and none for any other line
C10_LengthOfVisibleText ==
    (exists /\ "check_line_length_limit" \in Range(ran)
        /\ "check_line_length_limit" \notin faulted) =>
        \A n \in 1..Len(file) :
            Cardinality({k \in 1..Len(log) :
                            /\ log[k] = Violation("line_length_limit_check", n)}) =
                (IF Len(file[n].text) > ALLOWED_CHAR_COUNT THEN 1 ELSE 0)

(***************************************************************************)
(* Properties of the rules                                                 *)
(***************************************************************************)

\* the checker has gone through the whole of an existing file in the current call
Checked(checker) ==
    exists /\ checker \in Range(ran) /\ checker \notin faulted

\* the number of violation messages of rule r that a log holds for line n
ViolationsAt(l, r, n) == Cardinality({k \in 1..Len(l) : l[k] = Violation(r, n)})

\* no line of the file has a comment opener or closer
NoComments(f) ==
    \A n \in 1..Len(f) :
        /\ ~Contains(f[n].text, S("/*"))
        /\ ~Contains(f[n].text, S("*/"))
        /\ ~Contains(f[n].text, S("//"))

\* the digits of a hex literal, in either case
HexDigits == Digits \cup Range(S("abcdefABCDEF"))

\* the position after the last digit of the hex literal that starts at i
HexLiteralEnd(s, i) ==
    MinOf({j \in (i + 2)..(Len(s) + 1) : j = Len(s) + 1 \/ s[j] \notin HexDigits})

\* where the hex literals with an uppercase digit start in a line
UppercaseHexLiterals(s) ==
    {i \in 1..Len(s) :
        /\ OccursAt(s, S("0x"), i)
        /\ \E j \in (i + 2)..(HexLiteralEnd(s, i) - 1) : s[j] \in Range(S("ABCDEF"))}

\* C11: once check_hex_values has gone through a file without comments, it has
\* logged for every line one violation for each hex literal of the line that has
\* an uppercase digit A-F (whatever its first digit), and none for the others
C11_HexDiagnostics ==
    (Checked("check_hex_values") /\ NoComments(file)) =>
        \A n \in 1..Len(file) :
            ViolationsAt(log, "hex_value_check", n) =
                Cardinality(UppercaseHexLiterals(file[n].text))

\* line n of the file is an `if (...)` without a brace, and the next line is the
\* opening brace alone
BraceOnNextLine(f, n) ==
    /\ n < Len(f)
    /\ StartsWith(Strip(f[n].text), S("if ("))
    /\ EndsWith(Strip(f[n].text), S(")"))
    /\ Strip(f[n + 1].text) = S("{")

\* line n of the file is an `if (...) {`
BraceOnSameLine(f, n) ==
    /\ StartsWith(Strip(f[n].text), S("if ("))
    /\ EndsWith(Strip(f[n].text), S(") {"))

\* C12: once check_brace_placement has gone through a file without comments, it
\* has logged exactly one violation for an `if (x)` whose opening brace is alone on
\* the next line (at either of the two lines), and none for a line `if (x) {`
C12_BraceOnNextLineFlagged ==
    (Checked("check_brace_placement") /\ NoComments(file)) =>
        \A n \in 1..Len(file) :
            /\ BraceOnNextLine(file, n) =>
                   ViolationsAt(log, "brace_placement_check", n)
                       + ViolationsAt(log, "brace_placement_check", n + 1) = 1
            /\ BraceOnSameLine(file, n) =>
                   ViolationsAt(log, "brace_placement_check", n) = 0

\* the current call of run_analysis is the first on its analyzer
FirstRunOnAnalyzer == \A k \in 1..Len(history) : history[k].instance # instance

\* where the text `name <= 0` starts in a line, name not being the end of a
\* longer word
ComparedWithZero(s, name) ==
    {i \in 1..Len(s) :
        /\ OccursAt(s, name \o S(" <= 0"), i)
        /\ (i = 1 \/ s[i - 1] \notin WordChars)}

\* line n declares `UINT32 name;`
DeclaresUnsigned(f, n, name) == Strip(f[n].text) = S("UINT32 ") \o name \o S(";")

\* the lines of the file that have `name <= 0` after a line declaring the name
ChecksOfUnsigned(f, name) ==
    {n \in 1..Len(f) :
        /\ ComparedWithZero(f[n].text, name) # {}
        /\ \E d \in 1..(n - 1) : DeclaresUnsigned(f, d, name)}

\* C13: once check_unsigned_logic has gone through a file, no line has more than
\* one violation; a line with `count <= 0` after the declaration `UINT32 count;` has
\* one, and its message names count when that comparison is the first of the line;
\* and when it is the only line of the file with a `<`, the first run has added
\* exactly one to unsigned_logic_check
C13_UnsignedLogicOncePerLine ==
    Checked("check_unsigned_logic") =>
        /\ \A n \in 1..Len(file) : ViolationsAt(log, "unsigned_logic_check", n) <= 1
        /\ \A n \in ChecksOfUnsigned(file, S("count")) :
               /\ ViolationsAt(log, "unsigned_logic_check", n) = 1
               /\ (MinOf(ComparedWithZero(file[n].text, S("count")))
                       = IndexOf(file[n].text, S("<")) - Len(S("count "))) =>
                      UnsignedLogicVariable(ReadLines(file), n) = S("count")
               /\ (FirstRunOnAnalyzer
                       /\ \A m \in 1..Len(file) \ {n} : ~Contains(file[m].text, S("<"))) =>
                      counts["unsigned_logic_check"] = 1

\* check_unsigned_logic has gone through a file with a line that compares two
\* unsigned variables with 0, in the first run
C13_Witness ==
    /\ Checked("check_unsigned_logic") /\ FirstRunOnAnalyzer
    /\ counts["unsigned_logic_check"] = 1
    /\ \E n \in ChecksOfUnsigned(file, S("count")) :
           ComparedWithZero(file[n].text, S("total")) # {}

\* line n is in a function body: a line `{` before it has no line `}` after it
\* and before n
InFunctionBody(f, n) ==
    \E b \in 1..(n - 1) :
        /\ Strip(f[b].text) = S("{")
        /\ \A k \in (b + 1)..(n - 1) : ~Contains(f[k].text, S("}"))

\* line n begins with the type name, is a plain declaration (no parenthesis, no
\* `=`) and does not end in `;`
UnterminatedDeclaration(f, n, type_name) ==
    /\ StartsWith(Strip(f[n].text), type_name \o S(" "))
    /\ ~EndsWith(Strip(f[n].text), S(";"))
    /\ \A c \in {"(", ")", "="} : ~Contains(f[n].text, <<c>>)

\* the function-body lines that begin with Widget and do not end in `;`, after the
\* line `typedef struct { int a; } Widget;`
WidgetLines(f) ==
    {n \in 1..Len(f) :
        /\ \E d \in 1..(n - 1) : f[d].text = S("typedef struct { int a; } Widget;")
        /\ InFunctionBody(f, n)
        /\ UnterminatedDeclaration(f, n, S("Widget"))}

\* C14: once discovery and then check_variable_declaration have gone through a .c
\* file, every function-body line that begins with the discovered type Widget and
\* does not end in `;` has one declaration-ordering violation, with or without an
\* #include line in the file, while the checker called with the built-in reserved
\* set alone reports none for the line
C14_DiscoveredTypeFlagged ==
    (Checked("extract_global_declarations") /\ Checked("check_variable_declaration")) =>
        \A n \in WidgetLines(file) :
            /\ S("Widget") \in RESERVED_TYPES \ Range(RESERVED_TYPES_LIST)
            /\ ViolationsAt(log, "variable_declarations_check", n) = 1
            /\ ViolationsAt(VariableDeclarationCalls[<<file, TRUE>>]
                                [Range(RESERVED_TYPES_LIST)][NoFault].log,
                            "variable_declarations_check", n) = 0

\* the terminators of the lines of a file that end in one
LineEndings(f) == {f[n].eol : n \in 1..Len(f)} \ {"NONE"}

\* C15: once check_consistency has gone through a file without comments, it has
\* logged exactly one consistency violation when the file has a line ending in CRLF
\* and a line ending in a bare LF, and none when all its lines end the same way
C15_MixedLineEndingsOnce ==
    (Checked("check_consistency") /\ NoComments(file)) =>
        ViolationsOf(log, "consistency_check") =
            (IF LineEndings(file) = {"CRLF", "LF"} THEN 1 ELSE 0)

\* global_variable_declaration of check_variable_declaration after the first n lines
GlobalRegionAfter(f, n) ==
    VarDeclScan(ReadLines(f), 1, n, VarDeclStart,
                Range(RESERVED_TYPES_LIST)).global_variable_declaration

\* C17: in check_variable_declaration the global-declaration-region flag is true
\* after an #include line and false after a `/* Control Data */` marker line and
\* after a line of a function body; and once the checker has gone through a file, a
\* function-body line after an #include that begins with a reserved type name and
\* is not terminated by `;` has one declaration-ordering violation
C17_GlobalRegionEnds ==
    Checked("check_variable_declaration") =>
        \A n \in 1..Len(file) :
            /\ StartsWith(Strip(file[n].text), S("#include")) => GlobalRegionAfter(file, n)
            /\ (Strip(file[n].text) = S("/* Control Data */") \/ InFunctionBody(file, n)) =>
                   ~GlobalRegionAfter(file, n)
            /\ (/\ InFunctionBody(file, n)
                /\ \E d \in 1..(n - 1) : StartsWith(Strip(file[d].text), S("#include"))
                /\ \E type_name \in RESERVED_TYPES :
                       UnterminatedDeclaration(file, n, type_name)) =>
                   ViolationsAt(log, "variable_declarations_check", n) = 1

\* the inside-block-comment flag of each rule that keeps one, after the first n
\* lines of a file: check_operator_spacing, check_comments, check_brace_placement,
\* and the filter of check_hex_values and of the rules that share it
OperatorInComment(f, n) ==
    OperatorScan(ReadLines(f), 1, n, OperatorStart).in_multi_line_comment

CommentsInComment(f, n) ==
    CommentsScan(ReadLines(f), 1, n, CommentsStart).in_multiline_comment

BraceInComment(f, n) == BraceScan(ReadLines(f), 1, n, BraceStart).in_multiline_comment

FilterInComment(f, n) ==
    HexScan(ReadLines(f), 1, n, CommentFilterStart).in_multiline_comment

\* line n has a block comment that opens and closes on the line
OneLineBlockComment(f, n) ==
    \E i, j \in 1..Len(f[n].text) :
        /\ i + 1 < j
        /\ OccursAt(f[n].text, S("/*"), i)
        /\ OccursAt(f[n].text, S("*/"), j)

\* C18: once check_operator_spacing has gone through a file, the rules agree after
\* every line on whether they are inside a block comment; after a line with a
\* one-line /* ... */ comment none of them is, and the line `x = y+z;` that follows
\* such a comment has its operator-spacing violation
C18_OneLineCommentCloses ==
    Checked("check_operator_spacing") =>
        \A n \in 1..Len(file) :
            /\ {OperatorInComment(file, n), CommentsInComment(file, n),
                BraceInComment(file, n)} = {FilterInComment(file, n)}
            /\ OneLineBlockComment(file, n) =>
                   /\ ~OperatorInComment(file, n) /\ ~CommentsInComment(file, n)
                   /\ ~BraceInComment(file, n) /\ ~FilterInComment(file, n)
                   /\ (n < Len(file) /\ file[n + 1].text = S("x = y+z;")) =>
                          ViolationsAt(log, "operator_spacing_check", n + 1) = 1

\* no line of the file opens or closes a block comment, and no string literal
\* runs over the end of a line
PlainLines(f) ==
    \A n \in 1..Len(f) :
        /\ ~Contains(f[n].text, S("/*"))
        /\ ~Contains(f[n].text, S("*/"))
        /\ CountChar(f[n].text, "\"") % 2 = 0

\* where a line has `//` outside the string literals of the line
CommentStarts(s) ==
    {i \in 1..Len(s) :
        /\ OccursAt(s, S("//"), i)
        /\ Cardinality({j \in 1..(i - 1) : s[j] = "\""}) % 2 = 0}

\* where a line has `//` inside a string literal of the line
SlashesInsideStrings(s) ==
    {i \in 1..Len(s) :
        /\ OccursAt(s, S("//"), i)
        /\ Cardinality({j \in 1..(i - 1) : s[j] = "\""}) % 2 = 1}

\* the lines that carry a // comment with text after it
CommentLines(f) ==
    {n \in 1..Len(f) :
        /\ CommentStarts(f[n].text) # {}
        /\ Strip(From(f[n].text, MinOf(CommentStarts(f[n].text)) + 2)) # <<>>}

\* the first lines of the maximal runs of consecutive comment lines
RunStarts(f) == {n \in CommentLines(f) : n - 1 \notin CommentLines(f)}

\* C19: once check_comments has gone through a file of plain lines, every maximal
\* run of consecutive lines that carry a // comment with text (a `//` inside a
\* string literal is not one) has exactly one violation of its own, logged for its
\* first line, whether a non-comment line or the end of the file ends the run
C19_OnePerCommentRun ==
    (Checked("check_comments") /\ PlainLines(file)) =>
        \A n \in RunStarts(file) :
            ViolationsAt(log, "comment_check", n) =
                1 + (IF SlashesInsideStrings(file[n].text) # {} THEN 1 ELSE 0)

\* C20: once check_comments has gone through a file of plain lines none of which
\* carries a // comment, a line with `//` inside one string literal has exactly one
\* violation (the one for the string), the other lines have none, and the counter
\* has grown by the number of such lines in the first run
C20_SlashesInStringOnce ==
    (Checked("check_comments") /\ PlainLines(file) /\ CommentLines(file) = {}) =>
        /\ \A n \in 1..Len(file) :
               ViolationsAt(log, "comment_check", n) =
                   (IF SlashesInsideStrings(file[n].text) # {} THEN 1 ELSE 0)
        /\ FirstRunOnAnalyzer =>
               counts["comment_check"] =
                   Cardinality({n \in 1..Len(file) :
                                   SlashesInsideStrings(file[n].text) # {}})

(***************************************************************************)
(* Properties of concurrent requests                                       *)
(***************************************************************************)

\* the analyzer's counters and reserved set after the checkers k, k+1, ... of the
\* schedule of a file analysed on its own
RECURSIVE AloneFrom(_, _, _, _, _)
AloneFrom(f, extension, k, c, reserved) ==
    IF k > Len(Schedule(extension)) THEN [counts |-> c, RESERVED_TYPES |-> reserved]
    ELSE IF Schedule(extension)[k] = "extract_global_declarations"
    THEN AloneFrom(f, extension, k + 1, c,
             reserved \cup Range(OutcomeOn("extract_global_declarations", <<f, TRUE>>,
                                           NoFault, reserved).added))
    ELSE AloneFrom(f, extension, k + 1,
                   Apply(c, OutcomeOn(Schedule(extension)[k], <<f, TRUE>>, NoFault,
                                      reserved)),
                   reserved)

\* C16: when two requests for different files interleave, the log file of a
\* request never holds a diagnostic of the other request; when a request is done
\* all the diagnostics of its run are in its own log file and were in the log
\* attached to its email; and once its checkers have been called its counters and
\* its reserved set are those of its file analysed on its own
C16_NoCrossFileState ==
    \A r \in Requests :
        /\ \A q \in Requests \ {r} : sinks[r][q] = 0
        /\ up[r].pc = "done" =>
               /\ sinks[r][r] = up[r].diagnostics
               /\ up[r].attached = [q \in Requests |->
                                       IF q = r THEN up[r].diagnostics ELSE 0]
        /\ up[r].pc \in {"summary", "email", "sent", "done"} =>
               LET alone == AloneFrom(up[r].file, up[r].ext, 1, InitialCounts,
                                      Range(RESERVED_TYPES_LIST))
               IN  /\ up[r].counts = alone.counts
                   /\ up[r].RESERVED_TYPES = alone.RESERVED_TYPES

(***************************************************************************)
(* Properties of the rules, continued                                      *)
(***************************************************************************)

\* the control-structure stack of check_brace_placement after n lines of the file
BraceStackAfter(f, n) == BraceScan(ReadLines(f), 1, n, BraceStart).stack

\* C21: once check_brace_placement has gone through a file, no line has more than
\* two violations (one for its opening brace, one for its closing brace),
\* whichever control keywords it contains, and no line has added more than one
\* entry to the control-structure stack
C21_OneBraceDiagnosticEach ==
    Checked("check_brace_placement") =>
        \A n \in 1..Len(file) :
            /\ ViolationsAt(log, "brace_placement_check", n) <= 2
            /\ Len(BraceStackAfter(file, n)) <= Len(BraceStackAfter(file, n - 1)) + 1

\* C22: once check_unsigned_logic has gone through a file, every line with a
\* violation compares with zero a name that the file declares with an unsigned
\* type keyword; a file without such a declaration has no violation
C22_OnlyDeclaredUnsigned ==
    Checked("check_unsigned_logic") =>
        \A n \in 1..Len(file) :
            ViolationsAt(log, "unsigned_logic_check", n) > 0 =>
                UnsignedLogicVariable(ReadLines(file), n)
                    \in Range(VariableDeclarations(ReadLines(file)))

\* the words before the parenthesis of a line, and the words of each piece
\* between its parentheses
SignatureHead(s) == SplitWS(SubSeq(s, 1, IndexOf(s, S("(")) - 1))

SignatureParams(s) ==
    LET pieces == SplitOn(SubSeq(s, IndexOf(s, S("(")) + 1, Len(s) - 1), ",")
    IN  [k \in 1..Len(pieces) |-> SplitWS(pieces[k])]

\* the line is a function signature `RET name(T1 p1, ..., Tn pn)` with n >= 1
IsSignature(s) ==
    /\ CountChar(s, "(") = 1 /\ CountChar(s, ")") = 1 /\ EndsWith(s, S(")"))
    /\ Len(SignatureHead(s)) = 2
    /\ \A k \in 1..Len(SignatureParams(s)) : Len(SignatureParams(s)[k]) = 2
    /\ \A i \in 1..Len(s) : s[i] \in WordChars \cup {" ", ",", "(", ")"}

\* the return type and the parameter types of a signature
SignatureTypes(s) ==
    {SignatureHead(s)[1]} \cup {SignatureParams(s)[k][1] : k \in 1..Len(SignatureParams(s))}

\* C23: once discovery has gone through a file, the return type and every
\* parameter type of each of its function signatures is in the reserved-type
\* set, unless the type is a known keyword
C23_SignatureTypesReserved ==
    Checked("extract_global_declarations") =>
        \A n \in 1..Len(file) :
            IsSignature(file[n].text) =>
                \A type_name \in SignatureTypes(file[n].text) \ KNOWN_KEYWORDS :
                    type_name \in RESERVED_TYPES

\* the names of the logging and print calls
PrintCalls == Strs(<<"sysLog", "printf", "sprintf", "fprintf", "scanf">>)

\* the format string of a line that is a call `name("...", ...)` of one of them,
\* <<>> for another line
FormatString(s) ==
    IF \E k \in 1..Len(PrintCalls) : StartsWith(s, PrintCalls[k] \o S("(\""))
    THEN LET rest == From(s, IndexOf(s, S("\"")) + 1)
         IN  SubSeq(rest, 1, IndexOf(rest, S("\"")) - 1)
    ELSE <<>>

\* the conversion letter of the specifier that starts with the % at i: the first
\* character after the % that is no length modifier
ConversionLetter(s, i) ==
    LET j == MinOf({k \in (i + 1)..(Len(s) + 1) : k = Len(s) + 1 \/ s[k] \notin {"h", "l"}})
    IN  IF j > Len(s) THEN " " ELSE s[j]

\* where the specifiers outside the hexadecimal family start in a format string
NonHexSpecifiers(s) ==
    {i \in 1..Len(s) : s[i] = "%" /\ ConversionLetter(s, i) \notin {"x", "X"}}

\* C24: once check_address_print_format has gone through a file, a print call
\* whose format string mentions addr has one violation when the format has a
\* specifier outside the hexadecimal family, and none when all are hexadecimal
C24_AddressFormatFlagged ==
    Checked("check_address_print_format") =>
        \A n \in 1..Len(file) :
            Contains(FormatString(file[n].text), S("addr")) =>
                ViolationsAt(log, "address_print_check", n) =
                    (IF NonHexSpecifiers(FormatString(file[n].text)) # {} THEN 1 ELSE 0)

\* the line is one check_operator_spacing examines for pointers and operators:
\* no preprocessor directive, no format specifier, no ++ or --
ExaminedLine(s) ==
    /\ ~Contains(s, S("#")) /\ ~Contains(s, S("%"))
    /\ ~Contains(s, S("++")) /\ ~Contains(s, S("--"))

\* the line has an asterisk followed by a letter
AsteriskBeforeLetter(s) ==
    \E i \in 1..(Len(s) - 1) : s[i] = "*" /\ s[i + 1] \in Lower \cup Upper

\* the line has a pointer of the house form: *p followed by an uppercase letter
HousePointer(s) ==
    \E i \in 1..(Len(s) - 2) : OccursAt(s, S("*p"), i) /\ s[i + 2] \in Upper

\* C25: once check_operator_spacing has gone through a file without comments,
\* every examined line with an asterisk followed by a letter and no pointer of
\* the house form has one pointer-naming violation, the other lines have none,
\* and a line with a pointer-naming violation has no operator-spacing violation
C25_PointerNamingFlagged ==
    (Checked("check_operator_spacing") /\ NoComments(file)) =>
        \A n \in 1..Len(file) :
            ExaminedLine(file[n].text) =>
                /\ ViolationsAt(log, "pointer_naming_check", n) =
                       (IF /\ AsteriskBeforeLetter(file[n].text)
                           /\ ~HousePointer(file[n].text)
                        THEN 1 ELSE 0)
                /\ ViolationsAt(log, "pointer_naming_check", n) > 0 =>
                       ViolationsAt(log, "operator_spacing_check", n) = 0

\* the line has pointer syntax: an asterisk followed by a word character
PointerSyntax(s) == \E i \in 1..(Len(s) - 1) : s[i] = "*" /\ s[i + 1] \in WordChars

\* the occurrences of the operators of the table in a line, read from left to
\* right, that do not have whitespace (or an end of the line) on both sides
UnspacedOccurrences(s) ==
    LET found == ReFindAll(operator_pattern, 1, NoFlags, s)
    IN  {k \in 1..Len(found) :
            \/ found[k].start > 1 /\ s[found[k].start - 1] \notin SpaceChars
            \/ found[k].pos <= Len(s) /\ s[found[k].pos] \notin SpaceChars}

\* the line has none of what keeps a line out of the operator check: an
\* #include or #pragma, a format specifier of the table, ++ or --, pointer syntax
OperatorExamined(s) ==
    /\ ~StartsWith(Strip(s), S("#include")) /\ ~StartsWith(Strip(s), S("#pragma"))
    /\ \A k \in 1..Len(FORMAT_SPECIFIERS) : ~Contains(s, FORMAT_SPECIFIERS[k])
    /\ ~Contains(s, S("++")) /\ ~Contains(s, S("--"))
    /\ ~PointerSyntax(s)

\* the lines of a file without comments that count for operator spacing
UnspacedLines(f) ==
    {n \in 1..Len(f) :
        /\ OperatorExamined(f[n].text)
        /\ UnspacedOccurrences(f[n].text) # {}}

\* C26: once check_operator_spacing has gone through a file without comments,
\* operator_spacing_check is the number of examined lines that have an operator
\* occurrence without whitespace on both sides, and each of these lines has one
\* violation and the other lines none
C26_OperatorSpacingPerLine ==
    (Checked("check_operator_spacing") /\ NoComments(file)) =>
        /\ counts["operator_spacing_check"] = Cardinality(UnspacedLines(file))
        /\ \A n \in 1..Len(file) :
               ViolationsAt(log, "operator_spacing_check", n) =
                   (IF n \in UnspacedLines(file) THEN 1 ELSE 0)

\* the indentation style of a line: the kind of its first character when that is
\* a tab or a space and the line has more than whitespace
IndentationOf(s) ==
    IF Strip(s) = <<>> THEN "none"
    ELSE IF s[1] = "\t" THEN "tab"
    ELSE IF s[1] = " " THEN "space"
    ELSE "none"

\* the first indented line sets a style and a later line is indented in the other
MixedIndentation(f) ==
    \E m \in 1..Len(f) :
        /\ IndentationOf(f[m].text) # "none"
        /\ \A k \in 1..(m - 1) : IndentationOf(f[k].text) = "none"
        /\ \E n \in (m + 1)..Len(f) :
               IndentationOf(f[n].text) \notin {"none", IndentationOf(f[m].text)}

\* all the lines of the file end in the same way
OneLineEnding(f) == \A m, n \in 1..Len(f) : f[m].eol = f[n].eol

\* C27: once check_consistency has gone through a file without comments whose
\* lines all end in the same way, the log has a consistency violation when the
\* file mixes tab and space indentation, and none when it has one style
C27_MixedIndentationFlagged ==
    (Checked("check_consistency") /\ NoComments(file) /\ OneLineEnding(file)) =>
        ((ViolationsOf(log, "consistency_check") > 0) <=> MixedIndentation(file))

\* C28: in a first run on an existing file, every counter of a rule checker in
\* which an exception was raised equals the number of violation messages logged
\* for its rule: what the checker reported before it failed stays counted
C28_CountsKeptOnFault ==
    (FirstRunOnAnalyzer /\ exists) =>
        \A checker \in faulted \cap Range(ran) :
            \A r \in Counters[checker] : counts[r] = ViolationsOf(log, r)

\* the number of blank lines immediately before line n of the file
BlankLinesBefore(f, n) ==
    LET above == {m \in 1..(n - 1) : Strip(f[m].text) # <<>>}
    IN  IF above = {} THEN n - 1
        ELSE n - 1 - (CHOOSE m \in above : \A k \in above : k <= m)

\* C29: once check_spacing_between_routines has gone through a file, a line with a
\* violation is not preceded by exactly 4 blank lines
C29_GapOfFourNotReported ==
    Checked("check_spacing_between_routines") =>
        \A n \in 1..Len(file) :
            ViolationsAt(log, "spacing_between_routines_check", n) > 0 =>
                BlankLinesBefore(file, n) # RoutineGap

(***************************************************************************)
(* Properties of the summary                                               *)
(***************************************************************************)

\* the characters of the rule names in their order of comparison
NameChars == S("_abcdefghijklmnopqrstuvwxyz")

\* the rank of a character of a rule name
NameRank(ch) == CHOOSE k \in 1..Len(NameChars) : NameChars[k] = ch

\* the rule name a comes before the rule name b in the order of strings
NameBefore(a, b) ==
    LET x == S(a)
        y == S(b)
        differ == {k \in 1..Min2(Len(x), Len(y)) : x[k] # y[k]}
    IN  IF differ = {} THEN Len(x) < Len(y)
        ELSE NameRank(x[MinOf(differ)]) < NameRank(y[MinOf(differ)])

\* the position of a rule in the order of the keys of self.counts
KeyPosition(check) == CHOOSE k \in 1..Len(CountKeyOrder) : CountKeyOrder[k] = check

\* the summary says there are no issues exactly when every counter is zero, and
\* otherwise lists exactly the rules counted at least once, each once, with its
\* count
SummaryListsCounted(s, c) ==
    /\ s.no_issues <=> \A r \in DOMAIN c : c[r] = 0
    /\ {s.rows[k].check : k \in 1..Len(s.rows)} = {r \in DOMAIN c : c[r] >= 1}
    /\ \A i, j \in 1..Len(s.rows) : s.rows[i].check = s.rows[j].check => i = j
    /\ \A k \in 1..Len(s.rows) : s.rows[k].count = c[s.rows[k].check]

\* C30 as stated: the summary written by add_summary_to_log says there are no
\* issues exactly when every counter is zero, and otherwise lists exactly the
\* rules with a count of at least 1, each once with its count, in the order of
\* the rule names
C30_SummaryInNameOrder ==
    (pc \in {"email", "done"} /\ Len(summary) = 1) =>
        /\ SummaryListsCounted(summary[1], counts)
        /\ \A i, j \in 1..Len(summary[1].rows) :
               i < j => NameBefore(summary[1].rows[i].check, summary[1].rows[j].check)

\* C30, amended: the same, with the rows in the order in which __init__ creates
\* the counters
C30_SummaryInKeyOrder ==
    (pc \in {"email", "done"} /\ Len(summary) = 1) =>
        /\ SummaryListsCounted(summary[1], counts)
        /\ \A i, j \in 1..Len(summary[1].rows) :
               i < j => KeyPosition(summary[1].rows[i].check)
                            < KeyPosition(summary[1].rows[j].check)

\* a summary with two rows that are not in the order of their names
C30_Witness ==
    /\ pc = "done" /\ Len(summary) = 1
    /\ \E i, j \in 1..Len(summary[1].rows) :
           i < j /\ NameBefore(summary[1].rows[j].check, summary[1].rows[i].check)

=============================================================================
